---- MODULE Spec2Model ----
(***************************************************************************)
(* Vicinity clustering engine (get_clusters, get_jobs_dissimilarities,     *)
(* build_job_cluster, try_add_job) and the skills feature of the           *)
(* constraint pipeline.                                                     *)
(*                                                                         *)
(* Conventions of the model:                                               *)
(*   - Option<T> is a sequence of length 0 (None) or 1 (Some(x)).          *)
(*   - f64 durations, distances and times are integers.                    *)
(*   - an original Job is referred to by its id (jobs are compared by      *)
(*     identity in the code); jobs[id] holds its Single.                   *)
(*   - place indices are 1-based (the code's index + 1).                   *)
(*   - std::cmp::Ordering is "Less" / "Equal" / "Greater".                 *)
(***************************************************************************)
EXTENDS Integers, Sequences, FiniteSets, TLC

\* ------------------------------------------------------------------ bounds
NJobs == 4
Horizon == 20
MaxAllOf == 2
MaxOtherOf == 1
NRoutes == 2
MaxRouteJobs == 2

VARIABLES
    jobs,              \* job id -> Single {places, dimens}
    transport,         \* <<from, to>> -> [distance, duration]: the transport oracle
    config,            \* ClusterConfig
    constraint,        \* ConstraintPipeline: sequence of feature names
    check_limit,       \* parameter of the caller's check_insertion function
    iterOrder,         \* iteration order of the hash maps keyed by Job
    estimates,         \* HashMap<Job, DissimilarityIndex>
    dissim_log,        \* history: the jobs given to get_jobs_dissimilarities and the
                       \* place pairs it asked the transport oracle about
    cluster_estimates, \* Vec<(Job, (Option<Job>, HashSet<Job>))>
    used_jobs,         \* HashSet<Job>
    clusters,          \* Vec<(Job, Vec<Job>)>
    taskDone,          \* centers whose build task ran in the current build phase
    invalidated,       \* history: centers whose cached cluster the last commit reset
    build_log,         \* history: center -> record of its last build_job_cluster call
    pc,                \* position inside get_clusters
    source_skills,     \* skills merge: Option<JobSkills> of the source job
    candidate_skills,  \* skills merge: Option<JobSkills> of the candidate job
    merge_result,      \* skills merge: result of SkillsConstraint::merge
    move_ctx,          \* skills evaluate: Option<MoveContext>
    evaluate_result,   \* skills evaluate: Option of the Option<ConstraintViolation> returned
    routes,            \* group feature: solution_ctx.routes, each with its jobs and group state
    group_op           \* group feature: Option of the last operation with its arguments and result

vars == <<jobs, transport, config, constraint, check_limit, iterOrder, estimates,
          dissim_log, cluster_estimates, used_jobs, clusters, taskDone, invalidated, build_log, pc,
          source_skills, candidate_skills, merge_result,
          move_ctx, evaluate_result, routes, group_op>>

inputVars == <<jobs, transport, config, constraint, check_limit, iterOrder>>
clusterVars == <<estimates, cluster_estimates, used_jobs, clusters, taskDone, invalidated,
                 build_log, pc>>
skillVars == <<source_skills, candidate_skills, merge_result,
               move_ctx, evaluate_result, routes, group_op>>

JobIds == 1..NJobs

\* the most places a job of the runs has
MaxPlaces == 2

\* ------------------------------------------------------- generic helpers
None == <<>>
Some(x) == <<x>>
IsSome(o) == Len(o) = 1
IsNone(o) == Len(o) = 0
Unwrap(o) == o[1]

Range(s) == {s[i] : i \in DOMAIN s}

RECURSIVE Flatten(_)
Flatten(ss) == IF Len(ss) = 0 THEN <<>> ELSE Head(ss) \o Flatten(Tail(ss))

SetMax(S) == CHOOSE x \in S : \A y \in S : y <= x
MinOf(a, b) == IF a < b THEN a ELSE b
MaxOf(a, b) == IF a > b THEN a ELSE b

CmpInt(a, b) == IF a < b THEN "Less" ELSE IF a > b THEN "Greater" ELSE "Equal"

\* slice::sort_by (a stable sort): the element at index i goes to the position
\* given by the number of elements ordered before it; cmp[j][i] is the
\* comparator's result for (s[j], s[i]).
SortRank(s, cmp, i) ==
    1 + Cardinality({j \in DOMAIN s :
                        \/ cmp[j][i] = "Less"
                        \/ cmp[j][i] = "Equal" /\ j < i})

SortBy(s, cmp) ==
    [k \in DOMAIN s |-> s[CHOOSE i \in DOMAIN s : SortRank(s, cmp, i) = k]]

\* iteration of a hash map / hash set keyed by Job: the keys in hash order;
\* `order` is the iteration order the hasher happens to give
IterKeys(order, keys) == SelectSeq(order, LAMBDA j : j \in keys)

\* ---------------------------------------------------- time windows
TimeWindowNew(start, end) == [start |-> start, end |-> end]

TwOverlapping(a, b) ==
    LET start == MaxOf(a.start, b.start)
        end == MinOf(a.end, b.end)
    IN IF start < end THEN Some(TimeWindowNew(start, end)) ELSE None

TwDuration(tw) == tw.end - tw.start

AsTimeWindow(span) ==
    IF span.kind = "Window" THEN Some(TimeWindowNew(span.start, span.end)) ELSE None

SpanWindow(tw) == [kind |-> "Window", start |-> tw.start, end |-> tw.end]

filter_times(times) ==
    Flatten([i \in DOMAIN times |-> AsTimeWindow(times[i])])

\* (idx, place) -> Option<PlaceInfo>
map_place(idx, place) ==
    IF IsSome(place.location)
    THEN Some([idx |-> idx, location |-> Unwrap(place.location),
               duration |-> place.duration, times |-> filter_times(place.times)])
    ELSE None

PlaceInfos(single) ==
    Flatten([i \in DOMAIN single.places |-> map_place(i, single.places[i])])

\* ---------------------------------------------------- transport oracle
TransportDistance(from, to) == transport[<<from, to>>].distance
TransportDuration(from, to) == transport[<<from, to>>].duration

\* ---------------------------------------------------- dissimilarities
ServiceTime(inner_duration) ==
    CASE config.service_time.kind = "Original" -> inner_duration
      [] config.service_time.kind = "Multiplier" -> inner_duration * config.service_time.value
      [] config.service_time.kind = "Fixed" -> config.service_time.value

SharedTime(outer_times, inner_times) ==
    LET pairs == {p \in (DOMAIN outer_times) \X (DOMAIN inner_times) :
                     IsSome(TwOverlapping(outer_times[p[1]], inner_times[p[2]]))}
        overlaps == {TwDuration(Unwrap(TwOverlapping(outer_times[p[1]], inner_times[p[2]]))) :
                        p \in pairs}
    IN IF overlaps = {} THEN 0 ELSE SetMax(overlaps)

MinSharedTime ==
    IF IsSome(config.threshold.min_shared_time) THEN Unwrap(config.threshold.min_shared_time) ELSE 0

\* mutant: a value equal to its threshold still fits
IsReachableLenient(fwd_distance, fwd_duration, bck_distance, bck_duration) ==
    /\ CmpInt(fwd_distance, 0) # "Less"
    /\ CmpInt(bck_distance, 0) # "Less"
    /\ fwd_duration - config.threshold.moving_duration <= 0
    /\ fwd_distance - config.threshold.moving_distance <= 0
    /\ bck_duration - config.threshold.moving_duration <= 0
    /\ bck_distance - config.threshold.moving_distance <= 0

IsReachable(fwd_distance, fwd_duration, bck_distance, bck_duration) ==
    /\ CmpInt(fwd_distance, 0) # "Less"
    /\ CmpInt(bck_distance, 0) # "Less"
    /\ fwd_duration - config.threshold.moving_duration < 0
    /\ fwd_distance - config.threshold.moving_distance < 0
    /\ bck_duration - config.threshold.moving_duration < 0
    /\ bck_distance - config.threshold.moving_distance < 0

\* mutant: a pair whose shared time equals the threshold is kept
PlaceDissimilarityLenient(inner, o, p) ==
    IF SharedTime(o.times, p.times) >= MinSharedTime
    THEN LET fwd_distance == TransportDistance(o.location, p.location)
             fwd_duration == TransportDuration(o.location, p.location)
             bck_distance == TransportDistance(p.location, o.location)
             bck_duration == TransportDuration(p.location, o.location)
         IN Some([reachable |-> IsReachable(fwd_distance, fwd_duration, bck_distance, bck_duration),
                  outer_place_idx |-> o.idx,
                  info |-> [job |-> inner,
                            service_time |-> ServiceTime(p.duration),
                            place_idx |-> p.idx,
                            forward |-> <<fwd_distance, fwd_duration>>,
                            backward |-> <<bck_distance, bck_duration>>]])
    ELSE None

\* the entry of one (outer place, inner place) pair: Option<DissimilarityInfo>
PlaceDissimilarity(inner, o, p) ==
    IF SharedTime(o.times, p.times) > MinSharedTime
    THEN LET fwd_distance == TransportDistance(o.location, p.location)
             fwd_duration == TransportDuration(o.location, p.location)
             bck_distance == TransportDistance(p.location, o.location)
             bck_duration == TransportDuration(p.location, o.location)
         IN Some([reachable |-> IsReachable(fwd_distance, fwd_duration, bck_distance, bck_duration),
                  outer_place_idx |-> o.idx,
                  info |-> [job |-> inner,
                            service_time |-> ServiceTime(p.duration),
                            place_idx |-> p.idx,
                            forward |-> <<fwd_distance, fwd_duration>>,
                            backward |-> <<bck_distance, bck_duration>>]])
    ELSE None

get_dissimilarities(outer, inner) ==
    LET ops == PlaceInfos(jobs[outer])
        ips == PlaceInfos(jobs[inner])
    IN Flatten([i \in DOMAIN ops |->
           Flatten([k \in DOMAIN ips |-> PlaceDissimilarity(inner, ops[i], ips[k])])])

\* the place pairs for which lines 150-154 ask the transport oracle, as
\* <<outer, outer place, inner, inner place>>
OracleQueries(job_ids) ==
    {q \in job_ids \X (1..MaxPlaces) \X job_ids \X (1..MaxPlaces) :
        /\ q[1] # q[3]
        /\ \E o \in Range(PlaceInfos(jobs[q[1]])), p \in Range(PlaceInfos(jobs[q[3]])) :
               /\ o.idx = q[2] /\ p.idx = q[4]
               /\ SharedTime(o.times, p.times) > MinSharedTime}

\* mutant: a job is also paired with itself
get_jobs_dissimilaritiesWithSelf(job_ids) ==
    [outer \in job_ids |->
        LET inners == {inner \in job_ids : Len(get_dissimilarities(outer, inner)) > 0}
        IN [inner \in inners |-> get_dissimilarities(outer, inner)]]

get_jobs_dissimilarities(job_ids) ==
    [outer \in job_ids |->
        LET inners == {inner \in job_ids \ {outer} : Len(get_dissimilarities(outer, inner)) > 0}
        IN [inner \in inners |-> get_dissimilarities(outer, inner)]]

\* ---------------------------------------------------- skills feature
SkillViolationCode == 6

\* check_skill_sets closure of SkillsConstraint::merge
check_skill_sets(source_set, candidate_set) ==
    CASE IsNone(candidate_set) -> TRUE
      [] IsNone(source_set) /\ IsSome(candidate_set) -> FALSE
      [] OTHER -> Unwrap(candidate_set) \subseteq Unwrap(source_set)

has_comparable_skills(source_sk, candidate_sk) ==
    CASE IsNone(candidate_sk) -> TRUE
      [] IsNone(source_sk) /\ IsSome(candidate_sk) -> FALSE
      [] OTHER ->
            /\ check_skill_sets(Unwrap(source_sk).all_of, Unwrap(candidate_sk).all_of)
            /\ check_skill_sets(Unwrap(source_sk).one_of, Unwrap(candidate_sk).one_of)
            /\ check_skill_sets(Unwrap(source_sk).none_of, Unwrap(candidate_sk).none_of)

\* mutant: the merge returns the candidate's skills
SkillsMergeKeepsCandidate(source_sk, candidate_sk) ==
    IF has_comparable_skills(source_sk, candidate_sk)
    THEN [ok |-> TRUE, skills |-> candidate_sk, code |-> 0]
    ELSE [ok |-> FALSE, skills |-> None, code |-> SkillViolationCode]

\* SkillsConstraint::merge on the skills dimension: Ok(source) or Err(code)
SkillsMerge(source_sk, candidate_sk) ==
    IF has_comparable_skills(source_sk, candidate_sk)
    THEN [ok |-> TRUE, skills |-> source_sk, code |-> 0]
    ELSE [ok |-> FALSE, skills |-> None, code |-> SkillViolationCode]

\* ConstraintViolation::fail(code)
ConstraintViolationFail(code) == Some([code |-> code, stopped |-> TRUE])

check_all_of(job_skills, vehicle_skills) ==
    IF IsSome(job_skills.all_of) /\ IsSome(vehicle_skills)
    THEN Unwrap(job_skills.all_of) \subseteq Unwrap(vehicle_skills)
    ELSE IF IsSome(job_skills.all_of) /\ IsNone(vehicle_skills)
    THEN Unwrap(job_skills.all_of) = {}
    ELSE TRUE

\* mutant: a vehicle without skills passes every one_of
check_one_of_lenient(job_skills, vehicle_skills) ==
    IF IsSome(job_skills.one_of) /\ IsSome(vehicle_skills)
    THEN \E skill \in Unwrap(job_skills.one_of) : skill \in Unwrap(vehicle_skills)
    ELSE TRUE

check_one_of(job_skills, vehicle_skills) ==
    IF IsSome(job_skills.one_of) /\ IsSome(vehicle_skills)
    THEN \E skill \in Unwrap(job_skills.one_of) : skill \in Unwrap(vehicle_skills)
    ELSE IF IsSome(job_skills.one_of) /\ IsNone(vehicle_skills)
    THEN Unwrap(job_skills.one_of) = {}
    ELSE TRUE

check_none_of(job_skills, vehicle_skills) ==
    IF IsSome(job_skills.none_of) /\ IsSome(vehicle_skills)
    THEN Unwrap(job_skills.none_of) \cap Unwrap(vehicle_skills) = {}
    ELSE TRUE

\* SkillsConstraint::evaluate: Option<ConstraintViolation>
SkillsEvaluate(ctx) ==
    IF ctx.kind = "Route"
    THEN IF IsSome(ctx.job_skills)
              /\ ~(/\ check_all_of(Unwrap(ctx.job_skills), ctx.vehicle_skills)
                   /\ check_one_of(Unwrap(ctx.job_skills), ctx.vehicle_skills)
                   /\ check_none_of(Unwrap(ctx.job_skills), ctx.vehicle_skills))
         THEN ConstraintViolationFail(SkillViolationCode)
         ELSE None
    ELSE None

\* one feature's merge on jobs
FeatureMerge(feature, source, candidate) ==
    IF feature = "skills"
    THEN LET r == SkillsMerge(source.dimens.skills, candidate.dimens.skills)
         IN IF r.ok THEN [ok |-> TRUE, job |-> Some(source), code |-> 0]
                    ELSE [ok |-> FALSE, job |-> None, code |-> r.code]
    ELSE [ok |-> TRUE, job |-> Some(source), code |-> 0]

\* ConstraintPipeline::merge_constrained: the features' merge rules in order
RECURSIVE MergeFold(_, _, _)
MergeFold(features, acc, candidate) ==
    IF Len(features) = 0
    THEN [ok |-> TRUE, job |-> Some(acc), code |-> 0]
    ELSE LET r == FeatureMerge(Head(features), acc, candidate)
         IN IF r.ok THEN MergeFold(Tail(features), Unwrap(r.job), candidate) ELSE r

merge_constrained(source, candidate) == MergeFold(constraint, source, candidate)

\* the caller's CheckInsertionFn: a pure predicate of the synthesized job
check_insertion(job) == job.places[1].duration <= check_limit

\* ---------------------------------------------------- ordering functions
ordering_global(a, b) ==
    LET bySize == CmpInt(Cardinality(a.candidates), Cardinality(b.candidates))
    IN IF config.building.ordering_global = "size_then_id" /\ bySize = "Equal"
       THEN CmpInt(b.center, a.center)
       ELSE bySize

ordering_local(a, b) ==
    IF config.building.ordering_local = "forward_duration"
    THEN CmpInt(a.forward[2], b.forward[2])
    ELSE CmpInt(a.service_time + a.forward[2], b.service_time + b.forward[2])

building_threshold(job) == Len(Unwrap(job.dimens.cluster)) <= config.building.threshold_max_jobs

\* ---------------------------------------------------- cluster synthesis
create_single_job(location, duration, times, dimens) ==
    [places |-> <<[location |-> location, duration |-> duration,
                   times |-> [i \in DOMAIN times |-> SpanWindow(times[i])]]>>,
     dimens |-> dimens]

with_cluster_dimension(cluster, visit_info) ==
    LET jobsList == IF IsSome(cluster.dimens.cluster) THEN Unwrap(cluster.dimens.cluster) ELSE <<>>
    IN [places |-> cluster.places,
        dimens |-> [cluster.dimens EXCEPT !.cluster = Some(Append(jobsList, visit_info))]]

get_cluster_info_sorted(center_place_idx, dissimilarities, include_unreachable) ==
    LET kept == SelectSeq(dissimilarities,
                    LAMBDA d : d.outer_place_idx = center_place_idx
                               /\ (include_unreachable \/ d.reachable))
        infos == [i \in DOMAIN kept |-> kept[i].info]
    IN SortBy(infos, [a \in DOMAIN infos |-> [b \in DOMAIN infos |->
                         ordering_local(infos[a], infos[b])]])

\* the return_movement closure of build_job_cluster: None stands for the
\* failed expect("cannot find movement info")
return_movement(center_job, center_place_idx, original_info) ==
    IF center_job \in DOMAIN estimates /\ original_info.job \in DOMAIN estimates[center_job]
    THEN LET infos == estimates[center_job][original_info.job]
             found == SelectSeq(infos,
                          LAMBDA d : d.outer_place_idx = center_place_idx
                                     /\ d.info.place_idx = original_info.place_idx)
         IN IF Len(found) > 0 THEN Some(<<found[1].info.forward, found[1].info.backward>>) ELSE None
    ELSE None

\* ---------------------------------------------------- try_add_job
\* results carry a panic flag (a failed expect() aborts the whole run) and a
\* trace: for every ClusterInfo tried, what merge_constrained and
\* check_insertion answered (None when not called)
NoAddition == [panic |-> FALSE, val |-> None, trace |-> <<>>]
PanicResult == [panic |-> TRUE, val |-> None, trace |-> <<>>]

InfoStep(info, merge, check) ==
    [job |-> info.job, place_idx |-> info.place_idx, merge |-> merge, check |-> check]

cluster_last_duration(cluster) ==
    LET cluster_place == cluster.places[1]
    IN IF IsSome(cluster.dimens.cluster) /\ Len(Unwrap(cluster.dimens.cluster)) > 0
          /\ Len(jobs[Unwrap(cluster.dimens.cluster)[Len(Unwrap(cluster.dimens.cluster))].job].places) > 0
       THEN LET list == Unwrap(cluster.dimens.cluster)
                info == list[Len(list)]
                place == jobs[info.job].places[1]
            IN place.duration + (IF config.visiting = "Return" THEN info.backward[2] ELSE 0)
       ELSE cluster_place.duration

TimeWindowThreshold ==
    IF IsSome(config.building.smallest_time_window)
    THEN Unwrap(config.building.smallest_time_window) ELSE 0

\* the window produced by one (cluster_time, place_time) pair: Option<TimeWindow>
NewClusterTime(cluster, info, cluster_time, place_time0) ==
    LET place_time == TimeWindowNew(place_time0.start - info.forward[2], place_time0.end)
        overlap_time == TwOverlapping(place_time, cluster_time)
        duration == IF place_time.end < cluster_time.end
                    THEN cluster.places[1].duration
                    ELSE cluster_last_duration(cluster)
    IN IF IsNone(overlap_time) THEN None
       ELSE LET end == Unwrap(overlap_time).end - duration - info.forward[2]
            IN IF end - Unwrap(overlap_time).start < TimeWindowThreshold
               THEN None
               ELSE Some(TimeWindowNew(Unwrap(overlap_time).start, end))

NewClusterTimes(cluster, info, place_times) ==
    LET cluster_times == filter_times(cluster.places[1].times)
    IN Flatten([i \in DOMAIN cluster_times |->
           Flatten([k \in DOMAIN place_times |->
               NewClusterTime(cluster, info, cluster_times[i], place_times[k])])])

\* mutant: with Return only the way to the job is counted
MovementForwardOnly(info) == info.forward[2]

Movement(info) ==
    IF config.visiting = "Return" THEN info.forward[2] + info.backward[2] ELSE info.forward[2]

\* the body of the try_fold closure of try_add_job for one ClusterInfo;
\* rm = [center_job, center_place_idx] captured by the return_movement closure
TryAddInfo(rm, cluster, cand, info0) ==
    IF info0.place_idx \notin DOMAIN jobs[cand].places THEN PanicResult
    ELSE LET place == jobs[cand].places[info0.place_idx]
             cluster_place == cluster.places[1]
             \* lines 410-419: merge the synthesized jobs and check the insertion
             merge_and_check(info, new_cluster_times, merged) ==
                 IF Len(new_cluster_times) = 0
                 THEN [NoAddition EXCEPT !.trace = <<InfoStep(info, None, None)>>]
                 ELSE IF ~merged.ok
                 THEN [NoAddition EXCEPT !.trace = <<InfoStep(info, Some(FALSE), None)>>]
                 ELSE IF check_insertion(Unwrap(merged.job))
                 THEN [panic |-> FALSE,
                       val |-> Some([cluster |-> Unwrap(merged.job), info |-> info]),
                       trace |-> <<InfoStep(info, Some(TRUE), Some(TRUE))>>]
                 ELSE [NoAddition EXCEPT !.trace = <<InfoStep(info, Some(TRUE), Some(FALSE))>>]
             \* lines 398-409: the durations and the two synthesized jobs
             with_times(info, new_cluster_duration, new_cluster_times) ==
                 merge_and_check(info, new_cluster_times,
                     merge_constrained(
                         create_single_job(cluster_place.location, new_cluster_duration,
                                           new_cluster_times, cluster.dimens),
                         create_single_job(place.location, new_cluster_duration,
                                           new_cluster_times, jobs[cand].dimens)))
             \* lines 365-396: the new cluster times for the adjusted info
             with_info(info) ==
                 with_times(info,
                            cluster_place.duration + Movement(info) + info.service_time,
                            NewClusterTimes(cluster, info, filter_times(place.times)))
             \* lines 357-363: with Return the movement is the one from the center
             with_movement(m) ==
                 IF IsNone(m) THEN PanicResult
                 ELSE with_info([info0 EXCEPT !.forward = Unwrap(m)[1],
                                              !.backward = Unwrap(m)[2]])
         IN IF config.visiting = "Return"
            THEN with_movement(return_movement(rm.center_job, rm.center_place_idx, info0))
            ELSE with_info(info0)

\* mutant: the first ClusterInfo decides, its failure ends the search
TryFoldInfosStopsAtFailure(rm, cluster, cand, infos) ==
    IF Len(infos) = 0 THEN NoAddition
    ELSE TryAddInfo(rm, cluster, cand, Head(infos))

RECURSIVE TryFoldInfos(_, _, _, _)
TryFoldInfos(rm, cluster, cand, infos) ==
    IF Len(infos) = 0 THEN NoAddition
    ELSE LET after(r, rest) == [rest EXCEPT !.trace = r.trace \o @]
             step(r) == IF r.panic \/ IsSome(r.val) THEN r
                         ELSE after(r, TryFoldInfos(rm, cluster, cand, Tail(infos)))
         IN step(TryAddInfo(rm, cluster, cand, Head(infos)))

\* [panic, val, call]: call records the arguments of the call, the number of
\* ClusterInfos to try and the trace
try_add_job(rm, center_place_idx, cluster, cand, dissimilarities) ==
    LET result(r, infos_count) ==
            [panic |-> r.panic, val |-> r.val,
             call |-> [center_place_idx |-> center_place_idx, candidate |-> cand,
                       infos_count |-> infos_count, trace |-> r.trace,
                       panic |-> r.panic, committed |-> IsSome(r.val)]]
        fold(infos) == result(TryFoldInfos(rm, cluster, cand, infos), Len(infos))
    IN fold(get_cluster_info_sorted(center_place_idx, dissimilarities, TRUE))

\* mutant: the return to the center is added under every visiting policy
finish_clusterAlways(rm, cluster) ==
    LET clustered == Unwrap(cluster.dimens.cluster)
        add_return(mv) ==
            IF IsNone(mv) THEN [panic |-> TRUE, job |-> cluster]
            ELSE [panic |-> FALSE,
                  job |-> [cluster EXCEPT !.places[1].duration = @ + Unwrap(mv)[2][2]]]
    IN add_return(return_movement(rm.center_job, rm.center_place_idx,
                                  clustered[Len(clustered)]))

finish_cluster(rm, cluster) ==
    IF config.visiting = "ClosedContinuation" /\ IsSome(cluster.dimens.cluster)
    THEN LET clustered == Unwrap(cluster.dimens.cluster)
             last_info == clustered[Len(clustered)]
             add_return(mv) ==
                 IF IsNone(mv) THEN [panic |-> TRUE, job |-> cluster]
                 ELSE [panic |-> FALSE,
                       job |-> [cluster EXCEPT !.places[1].duration = @ + Unwrap(mv)[2][2]]]
         IN add_return(return_movement(rm.center_job, rm.center_place_idx, last_info))
    ELSE [panic |-> FALSE, job |-> cluster]

\* ---------------------------------------------------- build_job_cluster
\* job estimates specific for the last visited place, sorted by ordering_local
JobEstimates(order, last_job, last_place_idx, cluster_candidates) ==
    IF last_job \notin DOMAIN estimates THEN <<>>
    ELSE LET index == estimates[last_job]
             keys == IterKeys(order, DOMAIN index \cap cluster_candidates)
             first_of(job, sorted) ==
                 IF Len(sorted) = 0 THEN <<>>
                 ELSE <<[job |-> job, infos |-> index[job], visit_info |-> sorted[1]]>>
             sort_by_local(firsts) ==
                 SortBy(firsts, [a \in DOMAIN firsts |-> [b \in DOMAIN firsts |->
                            ordering_local(firsts[a].visit_info, firsts[b].visit_info)]])
         IN sort_by_local(Flatten([i \in DOMAIN keys |->
                first_of(keys[i],
                         get_cluster_info_sorted(last_place_idx, index[keys[i]], TRUE))]))

\* mutant: a candidate that failed stays in the candidate set
RECURSIVE AdditionFoldKeepsFailed(_, _, _, _, _)
AdditionFoldKeepsFailed(rm, last_place_idx, cluster, job_estimates, cluster_candidates) ==
    IF Len(job_estimates) = 0
    THEN [panic |-> FALSE, val |-> None, candidates |-> cluster_candidates, calls |-> <<>>]
    ELSE LET candidate == Head(job_estimates)
             after(r, rest) == [rest EXCEPT !.calls = <<r.call>> \o @]
             step(r) ==
                 IF r.panic \/ IsSome(r.val)
                 THEN [panic |-> r.panic, val |-> r.val, candidates |-> cluster_candidates,
                       calls |-> <<r.call>>]
                 ELSE after(r, AdditionFoldKeepsFailed(rm, last_place_idx, cluster,
                                                       Tail(job_estimates), cluster_candidates))
         IN step(try_add_job(rm, last_place_idx, cluster, candidate.job, candidate.infos))

\* the try_fold over job_estimates: the first successful addition, removing
\* every candidate that failed before it
RECURSIVE AdditionFold(_, _, _, _, _)
AdditionFold(rm, last_place_idx, cluster, job_estimates, cluster_candidates) ==
    IF Len(job_estimates) = 0
    THEN [panic |-> FALSE, val |-> None, candidates |-> cluster_candidates, calls |-> <<>>]
    ELSE LET candidate == Head(job_estimates)
             after(r, rest) == [rest EXCEPT !.calls = <<r.call>> \o @]
             step(r) ==
                 IF r.panic \/ IsSome(r.val)
                 THEN [panic |-> r.panic, val |-> r.val, candidates |-> cluster_candidates,
                       calls |-> <<r.call>>]
                 ELSE after(r, AdditionFold(rm, last_place_idx, cluster, Tail(job_estimates),
                                            cluster_candidates \ {candidate.job}))
         IN step(try_add_job(rm, last_place_idx, cluster, candidate.job, candidate.infos))

\* mutant: the tail stays at the center under every visiting policy
RECURSIVE GrowTailStays(_, _, _)
GrowTailStays(order, rm, st) ==
    IF st.candidates = {}
    THEN [panic |-> FALSE, cluster |-> st.cluster, count |-> st.count,
          iterations |-> st.iterations]
    ELSE LET iteration(r) ==
                 Append(st.iterations,
                        [last_job |-> st.last_job, last_place_idx |-> st.last_place_idx,
                         duration |-> st.cluster.places[1].duration,
                         times |-> filter_times(st.cluster.places[1].times),
                         visits |-> Len(Unwrap(st.cluster.dimens.cluster)),
                         calls |-> r.calls])
             step(r) ==
                 IF r.panic
                 THEN [panic |-> TRUE, cluster |-> st.cluster, count |-> st.count,
                       iterations |-> iteration(r)]
                 ELSE IF IsSome(r.val)
                 THEN GrowTailStays(order, rm,
                          [cluster |-> with_cluster_dimension(Unwrap(r.val).cluster,
                                                              Unwrap(r.val).info),
                           last_job |-> st.last_job,
                           last_place_idx |-> st.last_place_idx,
                           count |-> st.count + 1,
                           candidates |-> r.candidates \ {Unwrap(r.val).info.job},
                           iterations |-> iteration(r)])
                 ELSE GrowTailStays(order, rm, [st EXCEPT !.candidates = {},
                                                          !.iterations = iteration(r)])
         IN step(AdditionFold(rm, st.last_place_idx, st.cluster,
                     JobEstimates(order, st.last_job, st.last_place_idx, st.candidates),
                     st.candidates))

\* the growth loop of one center place;
\* st = [cluster, last_job, last_place_idx, count, candidates, iterations],
\* iterations recording, per pass of the loop, the tail and the try_add_job calls
RECURSIVE Grow(_, _, _)
Grow(order, rm, st) ==
    IF st.candidates = {}
    THEN [panic |-> FALSE, cluster |-> st.cluster, count |-> st.count,
          iterations |-> st.iterations]
    ELSE LET advance == config.visiting # "Return"
             iteration(r) ==
                 Append(st.iterations,
                        [last_job |-> st.last_job, last_place_idx |-> st.last_place_idx,
                         duration |-> st.cluster.places[1].duration,
                         times |-> filter_times(st.cluster.places[1].times),
                         visits |-> Len(Unwrap(st.cluster.dimens.cluster)),
                         calls |-> r.calls])
             \* lines 265-296: the outcome r of the try_fold over job_estimates
             step(r) ==
                 IF r.panic
                 THEN [panic |-> TRUE, cluster |-> st.cluster, count |-> st.count,
                       iterations |-> iteration(r)]
                 ELSE IF IsSome(r.val)
                 THEN LET new_cluster == Unwrap(r.val).cluster
                          visit_info == Unwrap(r.val).info
                      IN Grow(order, rm,
                              [cluster |-> with_cluster_dimension(new_cluster, visit_info),
                               last_job |-> IF advance THEN visit_info.job ELSE st.last_job,
                               last_place_idx |-> IF advance THEN visit_info.place_idx
                                                  ELSE st.last_place_idx,
                               count |-> st.count + 1,
                               candidates |-> r.candidates \ {visit_info.job},
                               iterations |-> iteration(r)])
                 ELSE Grow(order, rm, [st EXCEPT !.candidates = {},
                                                 !.iterations = iteration(r)])
         IN step(AdditionFold(rm, st.last_place_idx, st.cluster,
                     JobEstimates(order, st.last_job, st.last_place_idx, st.candidates),
                     st.candidates))

\* mutant: the used jobs are not excluded from the candidates
ClusterCandidatesKeepUsed(center_job, used) ==
    {job \in DOMAIN estimates[center_job] :
        \E i \in DOMAIN estimates[center_job][job] : estimates[center_job][job][i].reachable}

\* mutant: every unused job with an entry is a candidate, reachable or not
ClusterCandidatesAnyEntry(center_job, used) ==
    {job \in DOMAIN estimates[center_job] : job \notin used}

\* allow jobs only from reachable candidates
ClusterCandidates(center_job, used) ==
    {job \in DOMAIN estimates[center_job] :
        /\ job \notin used
        /\ \E i \in DOMAIN estimates[center_job][job] : estimates[center_job][job][i].reachable}

\* the cluster grown from one center place, finished: [panic, cluster, count]
GrowFromPlace(order, center_job, used, center_place_info) ==
    LET center == jobs[center_job]
        new_center_job == create_single_job(Some(center_place_info.location),
                              center_place_info.duration, center_place_info.times, center.dimens)
        new_visit_info == [job |-> center_job,
                           service_time |-> center_place_info.duration,
                           place_idx |-> center_place_info.idx,
                           forward |-> <<0, 0>>,
                           backward |-> <<0, 0>>]
        rm == [center_job |-> center_job, center_place_idx |-> center_place_info.idx]
        \* the record of this growth: the passes of the loop, the cluster the
        \* loop ended with and the cluster after finish_cluster
        growth(grown, cluster, panic) ==
            [center_place_idx |-> center_place_info.idx, iterations |-> grown.iterations,
             grown |-> grown.cluster, finished |-> cluster, count |-> grown.count,
             panic |-> panic, candidates |-> ClusterCandidates(center_job, used)]
        finished(f, grown) ==
            [panic |-> f.panic, cluster |-> f.job, count |-> grown.count,
             growth |-> growth(grown, f.job, f.panic)]
        \* lines 299-301: the grown cluster is finished when it has more than one job
        finish(grown) ==
            IF grown.panic \/ grown.count <= 1
            THEN [panic |-> grown.panic, cluster |-> grown.cluster, count |-> grown.count,
                  growth |-> growth(grown, grown.cluster, grown.panic)]
            ELSE finished(finish_cluster(rm, grown.cluster), grown)
    IN finish(Grow(order, rm, [cluster |-> with_cluster_dimension(new_center_job, new_visit_info),
                               last_job |-> center_job,
                               last_place_idx |-> center_place_info.idx,
                               count |-> 1,
                               candidates |-> ClusterCandidates(center_job, used),
                               iterations |-> <<>>]))

\* the try_fold over the center's places; best = Option<[job, count]>
\* mutant: a rejected best cluster does not end the fold over the places
RECURSIVE PlaceFoldNoAbort(_, _, _, _, _)
PlaceFoldNoAbort(order, center_job, used, place_infos, best_cluster) ==
    IF Len(place_infos) = 0 THEN [panic |-> FALSE, best |-> best_cluster, growths |-> <<>>]
    ELSE LET better(g) ==
                 IF IsSome(best_cluster) /\ Unwrap(best_cluster).count < g.count
                 THEN Some([job |-> g.cluster, count |-> g.count])
                 ELSE IF IsNone(best_cluster) /\ g.count > 1
                 THEN Some([job |-> g.cluster, count |-> g.count])
                 ELSE best_cluster
             after(g, rest) == [rest EXCEPT !.growths = <<g.growth>> \o @]
             step(g) ==
                 IF g.panic THEN [panic |-> TRUE, best |-> best_cluster, growths |-> <<g.growth>>]
                 ELSE after(g, PlaceFoldNoAbort(order, center_job, used, Tail(place_infos),
                                                better(g)))
         IN step(GrowFromPlace(order, center_job, used, Head(place_infos)))

RECURSIVE PlaceFold(_, _, _, _, _)
PlaceFold(order, center_job, used, place_infos, best_cluster) ==
    IF Len(place_infos) = 0 THEN [panic |-> FALSE, best |-> best_cluster, growths |-> <<>>]
    ELSE LET \* lines 303-307: the bigger cluster wins
             better(g) ==
                 IF IsSome(best_cluster) /\ Unwrap(best_cluster).count < g.count
                 THEN Some([job |-> g.cluster, count |-> g.count])
                 ELSE IF IsNone(best_cluster) /\ g.count > 1
                 THEN Some([job |-> g.cluster, count |-> g.count])
                 ELSE best_cluster
             after(g, rest) == [rest EXCEPT !.growths = <<g.growth>> \o @]
             \* lines 309-312: stop at the first cluster over the threshold
             continue(g, new_best) ==
                 IF IsSome(new_best) /\ ~building_threshold(Unwrap(new_best).job)
                 THEN [panic |-> FALSE, best |-> new_best, growths |-> <<g.growth>>]
                 ELSE after(g, PlaceFold(order, center_job, used, Tail(place_infos), new_best))
             step(g) ==
                 IF g.panic THEN [panic |-> TRUE, best |-> best_cluster, growths |-> <<g.growth>>]
                 ELSE continue(g, better(g))
         IN step(GrowFromPlace(order, center_job, used, Head(place_infos)))

\* [panic, cluster: Option<Job>, growths: the record of the growth of each place]
build_job_cluster(order, center_job, used) ==
    IF center_job \notin DOMAIN estimates
    THEN [panic |-> TRUE, cluster |-> None, growths |-> <<>>]
    ELSE LET result(r) ==
                 [panic |-> r.panic,
                  cluster |-> IF IsSome(r.best) THEN Some(Unwrap(r.best).job) ELSE None,
                  growths |-> r.growths]
         IN result(PlaceFold(order, center_job, used, PlaceInfos(jobs[center_job]), None))

\* ---------------------------------------------------- inputs
Locations == JobIds

\* the transport oracle of the clustering runs: jobs lie on a line
LineTransport ==
    [p \in Locations \X Locations |->
        LET d == IF p[1] < p[2] THEN p[2] - p[1] ELSE p[1] - p[2]
        IN [distance |-> d, duration |-> d]]

\* an oracle whose answers depend on the direction: the way down the line
\* takes one unit of time more than the way up
SlopeTransport ==
    [p \in Locations \X Locations |->
        IF p[1] > p[2]
        THEN [distance |-> p[1] - p[2], duration |-> p[1] - p[2] + 1]
        ELSE [distance |-> p[2] - p[1], duration |-> p[2] - p[1]]]

Transports == {LineTransport, SlopeTransport}

Window(start, end) == [kind |-> "Window", start |-> start, end |-> end]

DefaultSkills == Some([all_of |-> Some({"a"}), one_of |-> None, none_of |-> None])

\* a scenario makes at most one job skill-less (ns), or gives one job two
\* places (tp) and possibly its successor a late time window (lt)
Scenarios ==
    {[ns |-> 0, tp |-> 0, lt |-> 0]}
    \cup {[ns |-> k, tp |-> 0, lt |-> 0] : k \in JobIds}
    \cup {[ns |-> 0, tp |-> k, lt |-> 0] : k \in JobIds}
    \cup {[ns |-> 0, tp |-> k, lt |-> (k % NJobs) + 1] : k \in JobIds}
    \cup {[ns |-> (k % NJobs) + 1, tp |-> k, lt |-> 0] : k \in JobIds}

ScenarioJob(scn, j) ==
    [places |->
        IF j = scn.tp
        THEN <<[location |-> Some(j), duration |-> 1, times |-> <<Window(0, Horizon \div 2)>>],
               [location |-> Some(j), duration |-> 1, times |-> <<Window(0, Horizon)>>]>>
        ELSE IF j = scn.lt
        THEN <<[location |-> Some(j), duration |-> 1,
                times |-> <<Window(Horizon \div 4, Horizon)>>]>>
        ELSE <<[location |-> Some(j), duration |-> 1, times |-> <<Window(0, Horizon)>>]>>,
     dimens |-> [id |-> j,
                 skills |-> IF j = scn.ns THEN None ELSE DefaultSkills,
                 cluster |-> None]]

VisitPolicies == {"Return", "ClosedContinuation", "OpenContinuation"}
GlobalOrderings == {"size", "size_then_id"}
CheckLimits == {3, 4, 100}
HashOrders == {[i \in JobIds |-> i], [i \in JobIds |-> NJobs + 1 - i]}

ClusterConfigs ==
    {[threshold |-> [min_shared_time |-> Some(Horizon \div 4),
                     moving_distance |-> 3, moving_duration |-> 3],
      service_time |-> [kind |-> "Original", value |-> 0],
      visiting |-> v,
      building |-> [ordering_global |-> g, ordering_local |-> "forward_duration",
                    smallest_time_window |-> None, threshold_max_jobs |-> NJobs]]
     : v \in VisitPolicies, g \in GlobalOrderings}

\* ---------------------------------------------------- get_clusters
Init ==
    /\ \E scn \in Scenarios : jobs = [j \in JobIds |-> ScenarioJob(scn, j)]
    /\ transport \in Transports
    /\ config \in ClusterConfigs
    /\ constraint = <<"skills">>
    /\ check_limit \in CheckLimits
    /\ iterOrder \in HashOrders
    /\ estimates = <<>>
    /\ dissim_log = [job_ids |-> {}, pairs |-> {}]
    /\ cluster_estimates = <<>>
    /\ used_jobs = {}
    /\ clusters = <<>>
    /\ taskDone = {}
    /\ invalidated = {}
    /\ build_log = <<>>
    /\ pc = "start"
    /\ source_skills = None
    /\ candidate_skills = None
    /\ merge_result = None
    /\ move_ctx = None
    /\ evaluate_result = None
    /\ routes = <<>>
    /\ group_op = None

\* the caller computes the estimates
GetJobsDissimilarities ==
    /\ pc = "start"
    /\ estimates' = get_jobs_dissimilarities(JobIds)
    /\ dissim_log' = [job_ids |-> JobIds, pairs |-> OracleQueries(JobIds)]
    /\ pc' = "init"
    /\ UNCHANGED <<inputVars, cluster_estimates, used_jobs, clusters, taskDone, invalidated,
                   build_log, skillVars>>

\* reachable candidates of a center (lines 31-42)
InitialCandidates(estimate) ==
    {job \in DOMAIN estimate : \E i \in DOMAIN estimate[job] : estimate[job][i].reachable}

\* mutant: every job is a center, whether it is a key of estimates or not
InitialEstimatesAllJobs(order) ==
    LET keys == IterKeys(order, JobIds)
    IN [i \in DOMAIN keys |->
           [center |-> keys[i], cluster |-> None,
            candidates |-> IF keys[i] \in DOMAIN estimates
                           THEN InitialCandidates(estimates[keys[i]]) ELSE {}]]

InitialEstimates(order) ==
    LET keys == IterKeys(order, DOMAIN estimates)
    IN [i \in DOMAIN keys |->
           [center |-> keys[i], cluster |-> None,
            candidates |-> InitialCandidates(estimates[keys[i]])]]

GetClustersStart ==
    /\ pc = "init"
    /\ used_jobs' = {}
    /\ clusters' = <<>>
    /\ cluster_estimates' =
           InitialEstimates(iterOrder)
    /\ taskDone' = {}
    /\ pc' = "build"
    /\ UNCHANGED <<inputVars, dissim_log, estimates, invalidated, build_log, skillVars>>

\* the history of the build calls with the record of one more call
Logged(center, built) ==
    [c \in DOMAIN build_log \cup {center} |->
        IF c = center THEN built ELSE build_log[c]]

\* mutant: a task also sees the clusters that other tasks of the phase stored
BuildTaskSharedState(i) ==
    /\ pc = "build"
    /\ i \in DOMAIN cluster_estimates
    /\ i \notin taskDone
    /\ LET slot == cluster_estimates[i]
           seen == UNION {Range([n \in DOMAIN Unwrap(Unwrap(cluster_estimates[k].cluster).dimens.cluster)
                                    |-> Unwrap(Unwrap(cluster_estimates[k].cluster).dimens.cluster)[n].job])
                             : k \in {t \in taskDone : IsSome(cluster_estimates[t].cluster)}}
           built == build_job_cluster(iterOrder, slot.center, (used_jobs \cup seen) \ {slot.center})
       IN IF IsNone(slot.cluster)
          THEN /\ build_log' = Logged(slot.center, built)
               /\ IF built.panic
                  THEN /\ pc' = "panic"
                       /\ UNCHANGED cluster_estimates
                  ELSE /\ pc' = pc
                       /\ cluster_estimates' =
                              [cluster_estimates EXCEPT ![i].cluster = built.cluster]
          ELSE UNCHANGED <<pc, cluster_estimates, build_log>>
    /\ taskDone' = taskDone \cup {i}
    /\ UNCHANGED <<inputVars, dissim_log, estimates, used_jobs, clusters, invalidated, skillVars>>

\* mutant: a task stores its cluster in the first slot of the list
BuildTaskWritesFirst(i) ==
    /\ pc = "build"
    /\ i \in DOMAIN cluster_estimates
    /\ i \notin taskDone
    /\ LET slot == cluster_estimates[i]
           store(built) ==
               /\ build_log' = Logged(slot.center, built)
               /\ IF built.panic
                  THEN /\ pc' = "panic"
                       /\ UNCHANGED cluster_estimates
                  ELSE /\ pc' = pc
                       /\ cluster_estimates' =
                              [cluster_estimates EXCEPT ![1].cluster = built.cluster]
       IN IF IsNone(slot.cluster)
          THEN store(build_job_cluster(iterOrder, slot.center, used_jobs))
          ELSE UNCHANGED <<pc, cluster_estimates, build_log>>
    /\ taskDone' = taskDone \cup {i}
    /\ UNCHANGED <<inputVars, dissim_log, estimates, used_jobs, clusters, invalidated, skillVars>>

\* one task of parallel_foreach_mut: it owns the slot of one center
BuildTask(i) ==
    /\ pc = "build"
    /\ i \in DOMAIN cluster_estimates
    /\ i \notin taskDone
    /\ LET slot == cluster_estimates[i]
           store(built) ==
               /\ build_log' = Logged(slot.center, built)
               /\ IF built.panic
                  THEN /\ pc' = "panic"
                       /\ UNCHANGED cluster_estimates
                  ELSE /\ pc' = pc
                       /\ cluster_estimates' =
                              [cluster_estimates EXCEPT ![i].cluster = built.cluster]
       IN IF IsNone(slot.cluster)
          THEN store(build_job_cluster(iterOrder, slot.center, used_jobs))
          ELSE UNCHANGED <<pc, cluster_estimates, build_log>>
    /\ taskDone' = taskDone \cup {i}
    /\ UNCHANGED <<inputVars, dissim_log, estimates, used_jobs, clusters, invalidated, skillVars>>

\* mutant: the centers are sorted in ascending order
GlobalSortCmpAscending(a, b) == ordering_global(a, b)

\* the comparator of cluster_estimates.sort_by (descending: best first)
GlobalSortCmp(a, b) == ordering_global(b, a)

SortCentersBy(ce) ==
    SortBy(ce, [a \in DOMAIN ce |-> [b \in DOMAIN ce |-> GlobalSortCmp(ce[a], ce[b])]])

SortCenters ==
    /\ pc = "build"
    /\ taskDone = DOMAIN cluster_estimates
    /\ cluster_estimates' = SortCentersBy(cluster_estimates)
    /\ taskDone' = {}
    /\ pc' = "select"
    /\ UNCHANGED <<inputVars, dissim_log, estimates, used_jobs, clusters, invalidated, build_log, skillVars>>

\* cluster_estimates.first().and_then(|(_, (cluster, _))| cluster.as_ref()).cloned()
NewCluster ==
    IF Len(cluster_estimates) > 0 THEN cluster_estimates[1].cluster ELSE None

ClusterJobs(cluster) ==
    LET infos == Unwrap(cluster.dimens.cluster)
    IN [i \in DOMAIN infos |-> infos[i].job]

\* mutant: an affected cached cluster is not reset
PruneEstimatesNoReset(ce, used) ==
    LET centers == SelectSeq(ce, LAMBDA e : e.center \notin used)
        updated == [i \in DOMAIN centers |->
                       [center |-> centers[i].center,
                        cluster |-> centers[i].cluster,
                        candidates |-> centers[i].candidates \ used]]
    IN SelectSeq(updated, LAMBDA e : e.candidates # {})

\* mutant: centers whose candidate set became empty are kept
PruneEstimatesKeepEmpty(ce, used) ==
    LET centers == SelectSeq(ce, LAMBDA e : e.center \notin used)
    IN [i \in DOMAIN centers |->
           LET e == centers[i]
               is_cluster_affected ==
                   /\ IsSome(e.cluster)
                   /\ \E job \in Range([k \in DOMAIN Unwrap(Unwrap(e.cluster).dimens.cluster) |->
                                          Unwrap(Unwrap(e.cluster).dimens.cluster)[k].job]) : job \in used
           IN [center |-> e.center,
               cluster |-> IF is_cluster_affected THEN None ELSE e.cluster,
               candidates |-> e.candidates \ used]]

\* mutant: the centers that became used stay in the analysis
PruneEstimatesKeepsWinner(ce, used) ==
    LET updated == [i \in DOMAIN ce |->
                       LET e == ce[i]
                           is_cluster_affected ==
                               /\ IsSome(e.cluster)
                               /\ IsSome(Unwrap(e.cluster).dimens.cluster)
                               /\ \E job \in Range(ClusterJobs(Unwrap(e.cluster))) : job \in used
                       IN [center |-> e.center,
                           cluster |-> IF is_cluster_affected THEN None ELSE e.cluster,
                           candidates |-> e.candidates \ used]]
    IN SelectSeq(updated, LAMBDA e : e.candidates # {})

\* lines 73-88: remove used jobs from analysis
PruneEstimates(ce, used) ==
    LET centers == SelectSeq(ce, LAMBDA e : e.center \notin used)
        updated == [i \in DOMAIN centers |->
                       LET e == centers[i]
                           is_cluster_affected ==
                               /\ IsSome(e.cluster)
                               /\ IsSome(Unwrap(e.cluster).dimens.cluster)
                               /\ \E job \in Range(ClusterJobs(Unwrap(e.cluster))) : job \in used
                       IN [center |-> e.center,
                           cluster |-> IF is_cluster_affected THEN None ELSE e.cluster,
                           candidates |-> e.candidates \ used]]
    IN SelectSeq(updated, LAMBDA e : e.candidates # {})

Commit ==
    /\ pc = "select"
    /\ IsSome(NewCluster)
    /\ LET new_cluster == Unwrap(NewCluster)
           new_cluster_jobs == ClusterJobs(new_cluster)
           used == used_jobs \cup Range(new_cluster_jobs)
       IN /\ clusters' = Append(clusters, [cluster |-> new_cluster, jobs |-> new_cluster_jobs])
          /\ used_jobs' = used
          /\ cluster_estimates' = PruneEstimates(cluster_estimates, used)
          /\ invalidated' = {cluster_estimates[i].center : i \in
                                 {k \in DOMAIN cluster_estimates :
                                     /\ IsSome(cluster_estimates[k].cluster)
                                     /\ \E n \in DOMAIN cluster_estimates' :
                                            /\ cluster_estimates'[n].center = cluster_estimates[k].center
                                            /\ IsNone(cluster_estimates'[n].cluster)}}
    /\ pc' = "build"
    /\ UNCHANGED <<inputVars, dissim_log, estimates, taskDone, build_log, skillVars>>

Terminate ==
    /\ pc = "select"
    /\ IsNone(NewCluster)
    /\ pc' = "done"
    /\ UNCHANGED <<inputVars, dissim_log, estimates, cluster_estimates, used_jobs, clusters, taskDone,
                   invalidated, build_log, skillVars>>

Next ==
    \/ GetJobsDissimilarities
    \/ GetClustersStart
    \/ \E i \in JobIds : BuildTask(i)
    \/ SortCenters
    \/ Commit
    \/ Terminate

Spec == Init /\ [][Next]_vars

\* a step of get_clusters seen from outside: the loop moves on or one more
\* task of parallel_foreach_mut has run; it is possible until the function
\* returns or aborts
Advance ==
    /\ pc \notin {"done", "panic"}
    /\ pc' \in {"init", "build", "select", "done", "panic"}
    /\ taskDone' \in SUBSET JobIds

\* the function runs on without pause and parallel_foreach_mut returns when
\* every task has run: as long as a step is possible, a step is taken
SpecFair == Init /\ [][Next]_vars /\ WF_<<pc, taskDone>>(Advance)

TypeOK == pc \in {"start", "init", "build", "select", "done", "panic", "skills",
                  "evaluate", "fresh", "groups", "inserted"}

\* ---------------------------------------------------- runs over a part of the jobs
\* the caller computes the estimates of the jobs it wants clustered: any
\* list of the jobs, the empty one included
GetDissimilaritiesOf(job_ids) ==
    /\ pc = "start"
    /\ estimates' = get_jobs_dissimilarities(job_ids)
    /\ dissim_log' = [job_ids |-> job_ids, pairs |-> OracleQueries(job_ids)]
    /\ pc' = "init"
    /\ UNCHANGED <<inputVars, cluster_estimates, used_jobs, clusters, taskDone, invalidated,
                   build_log, skillVars>>

InitJobLists ==
    /\ jobs = [j \in JobIds |-> ScenarioJob([ns |-> 0, tp |-> 0, lt |-> 0], j)]
    /\ transport = LineTransport
    /\ config \in ClusterConfigs
    /\ constraint = <<"skills">>
    /\ check_limit \in CheckLimits
    /\ iterOrder \in HashOrders
    /\ estimates = <<>>
    /\ dissim_log = [job_ids |-> {}, pairs |-> {}]
    /\ cluster_estimates = <<>>
    /\ used_jobs = {}
    /\ clusters = <<>>
    /\ taskDone = {}
    /\ invalidated = {}
    /\ build_log = <<>>
    /\ pc = "start"
    /\ source_skills = None
    /\ candidate_skills = None
    /\ merge_result = None
    /\ move_ctx = None
    /\ evaluate_result = None
    /\ routes = <<>>
    /\ group_op = None

NextJobLists ==
    \/ \E job_ids \in SUBSET JobIds : GetDissimilaritiesOf(job_ids)
    \/ GetClustersStart
    \/ \E i \in JobIds : BuildTask(i)
    \/ SortCenters
    \/ Commit
    \/ Terminate

SpecJobLists == InitJobLists /\ [][NextJobLists]_vars

\* ---------------------------------------------------- runs with a rejecting threshold
\* configurations whose building.threshold rejects clusters of more than two
\* or three jobs
CappedConfigs ==
    {[c EXCEPT !.building.threshold_max_jobs = m] : c \in ClusterConfigs, m \in {2, 3}}

InitCapped ==
    /\ \E scn \in {x \in Scenarios : x.ns = 0} : jobs = [j \in JobIds |-> ScenarioJob(scn, j)]
    /\ transport = LineTransport
    /\ config \in CappedConfigs
    /\ constraint = <<"skills">>
    /\ check_limit \in CheckLimits
    /\ iterOrder \in HashOrders
    /\ estimates = <<>>
    /\ dissim_log = [job_ids |-> {}, pairs |-> {}]
    /\ cluster_estimates = <<>>
    /\ used_jobs = {}
    /\ clusters = <<>>
    /\ taskDone = {}
    /\ invalidated = {}
    /\ build_log = <<>>
    /\ pc = "start"
    /\ source_skills = None
    /\ candidate_skills = None
    /\ merge_result = None
    /\ move_ctx = None
    /\ evaluate_result = None
    /\ routes = <<>>
    /\ group_op = None

SpecCapped == InitCapped /\ [][Next]_vars

\* ---------------------------------------------------- runs under every hash order
\* every order in which a hash map may hand out the jobs
AllHashOrders ==
    {order \in [JobIds -> JobIds] : \A j \in JobIds : \E i \in JobIds : order[i] = j}

InitOrders ==
    /\ jobs = [j \in JobIds |-> ScenarioJob([ns |-> 0, tp |-> 0, lt |-> 0], j)]
    /\ transport = LineTransport
    /\ config \in ClusterConfigs
    /\ constraint = <<"skills">>
    /\ check_limit \in CheckLimits
    /\ iterOrder \in AllHashOrders
    /\ estimates = <<>>
    /\ dissim_log = [job_ids |-> {}, pairs |-> {}]
    /\ cluster_estimates = <<>>
    /\ used_jobs = {}
    /\ clusters = <<>>
    /\ taskDone = {}
    /\ invalidated = {}
    /\ build_log = <<>>
    /\ pc = "start"
    /\ source_skills = None
    /\ candidate_skills = None
    /\ merge_result = None
    /\ move_ctx = None
    /\ evaluate_result = None
    /\ routes = <<>>
    /\ group_op = None

SpecOrders == InitOrders /\ [][Next]_vars

\* ---------------------------------------------------- runs with unreachable hops
\* transport oracles that answer both directions between two neighbouring
\* locations with the negative sentinel, for the distance and the duration
GapTransports ==
    {[p \in Locations \X Locations |->
         IF {p[1], p[2]} = {k, k + 1}
         THEN [distance |-> -1, duration |-> -1]
         ELSE LineTransport[p]]
     : k \in 1..(NJobs - 1)}

\* single-place jobs on the line, job zd (if any) without service duration
GapJob(zd, j) ==
    [places |-> <<[location |-> Some(j), duration |-> IF j = zd THEN 0 ELSE 1,
                   times |-> <<Window(0, Horizon)>>]>>,
     dimens |-> [id |-> j, skills |-> DefaultSkills, cluster |-> None]]

InitGaps ==
    /\ \E zd \in 0..NJobs : jobs = [j \in JobIds |-> GapJob(zd, j)]
    /\ transport \in GapTransports
    /\ config \in ClusterConfigs
    /\ constraint = <<"skills">>
    /\ check_limit \in CheckLimits
    /\ iterOrder \in HashOrders
    /\ estimates = <<>>
    /\ dissim_log = [job_ids |-> {}, pairs |-> {}]
    /\ cluster_estimates = <<>>
    /\ used_jobs = {}
    /\ clusters = <<>>
    /\ taskDone = {}
    /\ invalidated = {}
    /\ build_log = <<>>
    /\ pc = "start"
    /\ source_skills = None
    /\ candidate_skills = None
    /\ merge_result = None
    /\ move_ctx = None
    /\ evaluate_result = None
    /\ routes = <<>>
    /\ group_op = None

SpecGaps == InitGaps /\ [][Next]_vars

\* ---------------------------------------------------- runs with alternative places
\* job k offers a second place at location far with a longer service duration;
\* all other jobs have one place
AltJob(k, far, j) ==
    [places |->
        IF j = k
        THEN <<[location |-> Some(j), duration |-> 1, times |-> <<Window(0, Horizon)>>],
               [location |-> Some(far), duration |-> 2, times |-> <<Window(0, Horizon)>>]>>
        ELSE <<[location |-> Some(j), duration |-> 1, times |-> <<Window(0, Horizon)>>]>>,
     dimens |-> [id |-> j, skills |-> DefaultSkills, cluster |-> None]]

InitPlaces ==
    /\ \E k \in JobIds : \E far \in Locations \ {k} :
           jobs = [j \in JobIds |-> AltJob(k, far, j)]
    /\ transport = LineTransport
    /\ config \in ClusterConfigs
    /\ constraint = <<"skills">>
    /\ check_limit \in CheckLimits
    /\ iterOrder \in HashOrders
    /\ estimates = <<>>
    /\ dissim_log = [job_ids |-> {}, pairs |-> {}]
    /\ cluster_estimates = <<>>
    /\ used_jobs = {}
    /\ clusters = <<>>
    /\ taskDone = {}
    /\ invalidated = {}
    /\ build_log = <<>>
    /\ pc = "start"
    /\ source_skills = None
    /\ candidate_skills = None
    /\ merge_result = None
    /\ move_ctx = None
    /\ evaluate_result = None
    /\ routes = <<>>
    /\ group_op = None

SpecPlaces == InitPlaces /\ [][Next]_vars

\* ---------------------------------------------------- runs with a demanding job
\* single-place jobs on the line; job odd requires a skill more than the
\* others, so that no cluster of another center merges with it
PickyJob(odd, j) ==
    [places |-> <<[location |-> Some(j), duration |-> 1, times |-> <<Window(0, Horizon)>>]>>,
     dimens |-> [id |-> j,
                 skills |-> IF j = odd
                            THEN Some([all_of |-> Some({"a", "b"}), one_of |-> None,
                                       none_of |-> None])
                            ELSE DefaultSkills,
                 cluster |-> None]]

InitPicky ==
    /\ \E odd \in JobIds : jobs = [j \in JobIds |-> PickyJob(odd, j)]
    /\ transport = LineTransport
    /\ config \in ClusterConfigs
    /\ constraint = <<"skills">>
    /\ check_limit \in CheckLimits
    /\ iterOrder \in HashOrders
    /\ estimates = <<>>
    /\ dissim_log = [job_ids |-> {}, pairs |-> {}]
    /\ cluster_estimates = <<>>
    /\ used_jobs = {}
    /\ clusters = <<>>
    /\ taskDone = {}
    /\ invalidated = {}
    /\ build_log = <<>>
    /\ pc = "start"
    /\ source_skills = None
    /\ candidate_skills = None
    /\ merge_result = None
    /\ move_ctx = None
    /\ evaluate_result = None
    /\ routes = <<>>
    /\ group_op = None

SpecPicky == InitPicky /\ [][Next]_vars

\* ---------------------------------------------------- runs with a kept cache
\* one job more than in the other runs, on a line one location longer
CacheJobIds == 1..(NJobs + 1)

CacheTransport ==
    [p \in CacheJobIds \X CacheJobIds |->
        LET d == IF p[1] < p[2] THEN p[2] - p[1] ELSE p[1] - p[2]
        IN [distance |-> d, duration |-> d]]

\* job 2 offers a second place at location 1; jobs 3 and 5 require one skill,
\* the other jobs two; job 3 takes hd units of service time
CacheJob(hd, j) ==
    [places |->
        IF j = 2
        THEN <<[location |-> Some(2), duration |-> 1, times |-> <<Window(0, Horizon)>>],
               [location |-> Some(1), duration |-> 1, times |-> <<Window(0, Horizon)>>]>>
        ELSE <<[location |-> Some(j), duration |-> IF j = 3 THEN hd ELSE 1,
                times |-> <<Window(0, Horizon)>>]>>,
     dimens |-> [id |-> j,
                 skills |-> IF j \in {3, 5}
                            THEN DefaultSkills
                            ELSE Some([all_of |-> Some({"a", "b"}), one_of |-> None,
                                       none_of |-> None]),
                 cluster |-> None]]

CacheCheckLimits == {9, 11, 12}

CacheHashOrders ==
    {[i \in CacheJobIds |-> i], [i \in CacheJobIds |-> NJobs + 2 - i]}

CacheConfigs ==
    {[c EXCEPT !.building.threshold_max_jobs = NJobs + 1] : c \in ClusterConfigs}

InitCache ==
    /\ \E hd \in {1, 6} : jobs = [j \in CacheJobIds |-> CacheJob(hd, j)]
    /\ transport = CacheTransport
    /\ config \in CacheConfigs
    /\ constraint = <<"skills">>
    /\ check_limit \in CacheCheckLimits
    /\ iterOrder \in CacheHashOrders
    /\ estimates = <<>>
    /\ dissim_log = [job_ids |-> {}, pairs |-> {}]
    /\ cluster_estimates = <<>>
    /\ used_jobs = {}
    /\ clusters = <<>>
    /\ taskDone = {}
    /\ invalidated = {}
    /\ build_log = <<>>
    /\ pc = "start"
    /\ source_skills = None
    /\ candidate_skills = None
    /\ merge_result = None
    /\ move_ctx = None
    /\ evaluate_result = None
    /\ routes = <<>>
    /\ group_op = None

NextCache ==
    \/ GetDissimilaritiesOf(CacheJobIds)
    \/ GetClustersStart
    \/ \E i \in CacheJobIds : BuildTask(i)
    \/ SortCenters
    \/ Commit
    \/ Terminate

SpecCache == InitCache /\ [][NextCache]_vars

\* ---------------------------------------------------- runs over place pairs
\* job j of variant k: jobs with a place without location before the located
\* one, with two time windows, with a late window, with an offset time span
\* only, and plain jobs; the variant moves the roles over the jobs
PairJob(k, j) ==
    LET role == (j + k) % NJobs
    IN [places |->
           IF role = 0
           THEN <<[location |-> None, duration |-> 1, times |-> <<Window(0, Horizon)>>],
                  [location |-> Some(j), duration |-> 1, times |-> <<Window(0, Horizon)>>]>>
           ELSE IF role = 1
           THEN <<[location |-> Some(j), duration |-> 1,
                   times |-> <<Window(0, Horizon \div 4), Window(Horizon \div 2, Horizon)>>]>>
           ELSE IF role = 2
           THEN <<[location |-> Some(j), duration |-> 1,
                   times |-> <<Window(Horizon \div 4, Horizon)>>]>>
           ELSE IF role = 3
           THEN <<[location |-> Some(j), duration |-> 1,
                   times |-> <<[kind |-> "Offset", start |-> 0, end |-> Horizon]>>]>>
           ELSE <<[location |-> Some(j), duration |-> 1, times |-> <<Window(0, Horizon)>>]>>,
        dimens |-> [id |-> j, skills |-> DefaultSkills, cluster |-> None]]

\* configurations with every kind of shared-time threshold and with tight and
\* loose moving thresholds
PairConfigs ==
    {[threshold |-> [min_shared_time |-> mst,
                     moving_distance |-> md, moving_duration |-> mt],
      service_time |-> [kind |-> "Original", value |-> 0],
      visiting |-> "Return",
      building |-> [ordering_global |-> "size", ordering_local |-> "forward_duration",
                    smallest_time_window |-> None, threshold_max_jobs |-> NJobs]]
     : mst \in {None, Some(Horizon \div 4), Some(Horizon \div 2)},
       md \in {2, 3}, mt \in {2, 3}}

InitPairs ==
    /\ \E k \in JobIds : jobs = [j \in JobIds |-> PairJob(k, j)]
    /\ transport \in Transports
    /\ config \in PairConfigs
    /\ constraint = <<"skills">>
    /\ check_limit = 100
    /\ iterOrder = [i \in JobIds |-> i]
    /\ estimates = <<>>
    /\ dissim_log = [job_ids |-> {}, pairs |-> {}]
    /\ cluster_estimates = <<>>
    /\ used_jobs = {}
    /\ clusters = <<>>
    /\ taskDone = {}
    /\ invalidated = {}
    /\ build_log = <<>>
    /\ pc = "start"
    /\ source_skills = None
    /\ candidate_skills = None
    /\ merge_result = None
    /\ move_ctx = None
    /\ evaluate_result = None
    /\ routes = <<>>
    /\ group_op = None

NextPairs == \E job_ids \in SUBSET JobIds : GetDissimilaritiesOf(job_ids)

SpecPairs == InitPairs /\ [][NextPairs]_vars

\* ---------------------------------------------------- dissimilarity runs
\* transport oracles that answer one ordered pair of locations with the
\* negative sentinel, for the distance, the duration or both
SentinelTransports ==
    {[p \in Locations \X Locations |->
         IF p = q
         THEN [distance |-> IF neg_distance THEN -1 ELSE LineTransport[p].distance,
               duration |-> IF neg_duration THEN -1 ELSE LineTransport[p].duration]
         ELSE LineTransport[p]]
     : q \in {x \in Locations \X Locations : x[1] # x[2]},
       neg_distance \in BOOLEAN, neg_duration \in BOOLEAN}

\* configurations with tight and loose moving thresholds
ThresholdConfigs ==
    {[threshold |-> [min_shared_time |-> None,
                     moving_distance |-> md, moving_duration |-> mt],
      service_time |-> [kind |-> "Original", value |-> 0],
      visiting |-> "Return",
      building |-> [ordering_global |-> "size", ordering_local |-> "forward_duration",
                    smallest_time_window |-> None, threshold_max_jobs |-> NJobs]]
     : md \in {2, 3}, mt \in {2, 3}}

InitDissimilarities ==
    /\ jobs = [j \in JobIds |-> ScenarioJob([ns |-> 0, tp |-> 0, lt |-> 0], j)]
    /\ transport \in SentinelTransports
    /\ config \in ThresholdConfigs
    /\ constraint = <<"skills">>
    /\ check_limit = 100
    /\ iterOrder = [i \in JobIds |-> i]
    /\ estimates = <<>>
    /\ dissim_log = [job_ids |-> {}, pairs |-> {}]
    /\ cluster_estimates = <<>>
    /\ used_jobs = {}
    /\ clusters = <<>>
    /\ taskDone = {}
    /\ invalidated = {}
    /\ build_log = <<>>
    /\ pc = "start"
    /\ source_skills = None
    /\ candidate_skills = None
    /\ merge_result = None
    /\ move_ctx = None
    /\ evaluate_result = None
    /\ routes = <<>>
    /\ group_op = None

NextDissimilarities == GetJobsDissimilarities

SpecDissimilarities == InitDissimilarities /\ [][NextDissimilarities]_vars

\* ---------------------------------------------------- skills merge runs
Skills == {"a", "b", "c"}
OtherSkills == {"a", "b"}

\* Option<HashSet<String>> values with at most k skills of a universe
SkillSets(universe, k) ==
    {None} \cup {Some(S) : S \in {T \in SUBSET universe : Cardinality(T) <= k}}

\* Option<JobSkills>
JobSkillsValues ==
    {None} \cup {Some(sk) : sk \in [all_of : SkillSets(Skills, MaxAllOf),
                                    one_of : SkillSets(OtherSkills, MaxOtherOf),
                                    none_of : SkillSets(OtherSkills, MaxOtherOf)]}

InitSkills ==
    /\ jobs = <<>>
    /\ transport = <<>>
    /\ config = <<>>
    /\ constraint = <<"skills">>
    /\ check_limit = 0
    /\ iterOrder = <<>>
    /\ estimates = <<>>
    /\ dissim_log = [job_ids |-> {}, pairs |-> {}]
    /\ cluster_estimates = <<>>
    /\ used_jobs = {}
    /\ clusters = <<>>
    /\ taskDone = {}
    /\ invalidated = {}
    /\ build_log = <<>>
    /\ pc = "skills"
    /\ source_skills \in JobSkillsValues
    /\ candidate_skills \in JobSkillsValues
    /\ merge_result = None
    /\ move_ctx = None
    /\ evaluate_result = None
    /\ routes = <<>>
    /\ group_op = None

\* SkillsConstraint::merge(source, candidate)
MergeSkills ==
    /\ pc = "skills"
    /\ IsNone(merge_result)
    /\ merge_result' = Some(SkillsMerge(source_skills, candidate_skills))
    /\ UNCHANGED <<inputVars, dissim_log, clusterVars, source_skills, candidate_skills,
                   move_ctx, evaluate_result, routes, group_op>>

NextSkills == MergeSkills

SpecSkills == InitSkills /\ [][NextSkills]_vars

\* ---------------------------------------------------- skills evaluate runs
\* Option<&HashSet<String>> of the vehicle
VehicleSkillsValues == {None} \cup {Some(S) : S \in SUBSET Skills}

\* MoveContext::Route {route_ctx, job} or MoveContext::Activity, reduced to
\* what the skills constraint reads
MoveContexts ==
    [kind : {"Route", "Activity"}, job_skills : JobSkillsValues,
     vehicle_skills : VehicleSkillsValues]

InitEvaluate ==
    /\ jobs = <<>>
    /\ transport = <<>>
    /\ config = <<>>
    /\ constraint = <<"skills">>
    /\ check_limit = 0
    /\ iterOrder = <<>>
    /\ estimates = <<>>
    /\ dissim_log = [job_ids |-> {}, pairs |-> {}]
    /\ cluster_estimates = <<>>
    /\ used_jobs = {}
    /\ clusters = <<>>
    /\ taskDone = {}
    /\ invalidated = {}
    /\ build_log = <<>>
    /\ pc = "evaluate"
    /\ source_skills = None
    /\ candidate_skills = None
    /\ merge_result = None
    /\ \E ctx \in MoveContexts : move_ctx = Some(ctx)
    /\ evaluate_result = None
    /\ routes = <<>>
    /\ group_op = None

\* SkillsConstraint::evaluate(move_ctx)
EvaluateSkills ==
    /\ pc = "evaluate"
    /\ IsNone(evaluate_result)
    /\ evaluate_result' = Some(SkillsEvaluate(Unwrap(move_ctx)))
    /\ UNCHANGED <<inputVars, dissim_log, clusterVars, source_skills, candidate_skills, merge_result,
                   move_ctx, routes, group_op>>

NextEvaluate == EvaluateSkills

SpecEvaluate == InitEvaluate /\ [][NextEvaluate]_vars

\* ---------------------------------------------------- group feature runs
\* The group feature keeps, per route, the set of the groups of its jobs (the
\* count kept next to the set is read by none of the operations below).
GroupViolationCode == 12

GroupNames == {"g1", "g2"}

\* GroupAspects::get_job_group: Option<&String>
JobGroups == {None} \cup {Some(g) : g \in GroupNames}

RouteIds == 1..NRoutes

\* the group set given to a route's state: the groups of its jobs
RouteGroups(route_jobs) ==
    {Unwrap(route_jobs[i]) : i \in {k \in DOMAIN route_jobs : IsSome(route_jobs[k])}}

\* a route context: the groups of the jobs of its tour and its group state,
\* either given with the route or still empty (a state not yet computed)
RouteContext(route_jobs, with_state) ==
    [jobs |-> route_jobs, groups |-> IF with_state THEN RouteGroups(route_jobs) ELSE {}]

\* mutant: the route of the insertion is searched too
GroupEvaluateAnyRoute(rs, route_idx, job) ==
    IF IsSome(job) /\ \E r \in DOMAIN rs : Unwrap(job) \in rs[r].groups
    THEN ConstraintViolationFail(GroupViolationCode)
    ELSE None

\* GroupConstraint::evaluate on MoveContext::Route {solution_ctx, route_ctx, job}
GroupEvaluate(rs, route_idx, job) ==
    IF IsSome(job) /\ \E r \in DOMAIN rs \ {route_idx} : Unwrap(job) \in rs[r].groups
    THEN ConstraintViolationFail(GroupViolationCode)
    ELSE None

\* mutant: the insertion is not recorded in the route's state
GroupAcceptInsertionForgets(rs, route_idx, job) == rs

\* GroupState::accept_insertion(solution_ctx, route_idx, job)
GroupAcceptInsertion(rs, route_idx, job) ==
    IF IsSome(job)
    THEN [rs EXCEPT ![route_idx].groups = @ \cup {Unwrap(job)}]
    ELSE rs

\* mutant: only the first route is refreshed
GroupAcceptSolutionStateFirstOnly(rs) ==
    [r \in DOMAIN rs |->
        IF r = 1 THEN [rs[r] EXCEPT !.groups = RouteGroups(rs[r].jobs)] ELSE rs[r]]

\* GroupState::accept_solution_state(solution_ctx)
GroupAcceptSolutionState(rs) ==
    [r \in DOMAIN rs |-> [rs[r] EXCEPT !.groups = RouteGroups(rs[r].jobs)]]

\* mutant: a candidate without group is absorbed by any source
GroupMergeLenient(source, candidate) ==
    IF source = candidate \/ IsNone(candidate)
    THEN [ok |-> TRUE, code |-> 0]
    ELSE [ok |-> FALSE, code |-> GroupViolationCode]

\* GroupConstraint::merge(source, candidate) on the jobs' groups
GroupMerge(source, candidate) ==
    IF source = candidate
    THEN [ok |-> TRUE, code |-> 0]
    ELSE [ok |-> FALSE, code |-> GroupViolationCode]

\* the record kept of the last operation
GroupOp(op, route_idx, job, candidate, result) ==
    Some([op |-> op, route_idx |-> route_idx, job |-> job, candidate |-> candidate,
          result |-> result, before |-> routes])

\* tours of at most one job each in which no group is shared by two routes
InitialTours ==
    {t \in [RouteIds -> {<<>>} \cup {<<g>> : g \in JobGroups}] :
        \A a \in RouteIds : \A b \in RouteIds :
            a # b => RouteGroups(t[a]) \cap RouteGroups(t[b]) = {}}

InitGroups ==
    /\ jobs = <<>>
    /\ transport = <<>>
    /\ config = <<>>
    /\ constraint = <<"group">>
    /\ check_limit = 0
    /\ iterOrder = <<>>
    /\ estimates = <<>>
    /\ dissim_log = [job_ids |-> {}, pairs |-> {}]
    /\ cluster_estimates = <<>>
    /\ used_jobs = {}
    /\ clusters = <<>>
    /\ taskDone = {}
    /\ invalidated = {}
    /\ build_log = <<>>
    /\ pc = "fresh"
    /\ source_skills = None
    /\ candidate_skills = None
    /\ merge_result = None
    /\ move_ctx = None
    /\ evaluate_result = None
    /\ \E t \in InitialTours : \E with_state \in BOOLEAN :
           routes = [r \in RouteIds |-> RouteContext(t[r], with_state)]
    /\ group_op = None

GroupFrame ==
    UNCHANGED <<inputVars, dissim_log, estimates, cluster_estimates, used_jobs, clusters, taskDone,
                invalidated, build_log, source_skills, candidate_skills, merge_result,
                move_ctx, evaluate_result>>

\* constraint.evaluate(&MoveContext::route(&solution_ctx, route_ctx, &job))
EvaluateJob(route_idx, job) ==
    /\ pc = "groups"
    /\ group_op' = GroupOp("evaluate", route_idx, job, None,
                           GroupEvaluate(routes, route_idx, job))
    /\ UNCHANGED <<pc, routes>>
    /\ GroupFrame

\* an insertion the constraint admits: the job enters the tour
InsertJob(route_idx, job) ==
    /\ pc = "groups"
    /\ Len(routes[route_idx].jobs) < MaxRouteJobs
    /\ IsNone(GroupEvaluate(routes, route_idx, job))
    /\ routes' = [routes EXCEPT ![route_idx].jobs = Append(@, job)]
    /\ group_op' = GroupOp("insert", route_idx, job, None, None)
    /\ pc' = "inserted"
    /\ GroupFrame

\* state.accept_insertion(&mut solution_ctx, route_idx, &job) for the inserted job
AcceptInsertion ==
    /\ pc = "inserted"
    /\ routes' = GroupAcceptInsertion(routes, Unwrap(group_op).route_idx, Unwrap(group_op).job)
    /\ group_op' = GroupOp("accept_insertion", Unwrap(group_op).route_idx,
                           Unwrap(group_op).job, None, None)
    /\ pc' = "groups"
    /\ GroupFrame

\* state.accept_solution_state(&mut solution_ctx): first on the initial
\* solution, then at any time between insertions
AcceptSolutionState ==
    /\ pc \in {"fresh", "groups"}
    /\ routes' = GroupAcceptSolutionState(routes)
    /\ group_op' = GroupOp("accept_solution_state", 0, None, None, None)
    /\ pc' = "groups"
    /\ GroupFrame

\* constraint.merge(source, candidate)
MergeGroups(source, candidate) ==
    /\ pc = "groups"
    /\ group_op' = GroupOp("merge", 0, source, candidate, Some(GroupMerge(source, candidate)))
    /\ UNCHANGED <<pc, routes>>
    /\ GroupFrame

NextGroups ==
    \/ \E route_idx \in RouteIds : \E job \in JobGroups : EvaluateJob(route_idx, job)
    \/ \E route_idx \in RouteIds : \E job \in JobGroups : InsertJob(route_idx, job)
    \/ AcceptInsertion
    \/ AcceptSolutionState
    \/ \E source \in JobGroups : \E candidate \in JobGroups : MergeGroups(source, candidate)

SpecGroups == InitGroups /\ [][NextGroups]_vars

\* ---------------------------------------------------- properties
\* the composed jobs of all returned clusters, as (cluster index, position) pairs
ComposedPositions == {p \in (DOMAIN clusters) \X (1..NJobs) : p[2] \in DOMAIN clusters[p[1]].jobs}

\* C1: across all clusters returned by get_clusters every job appears in the
\* composed-job list of at most one cluster, and at most once inside that list.
C1_ComposedJobsUnique ==
    \A p \in ComposedPositions : \A q \in ComposedPositions :
        p # q => clusters[p[1]].jobs[p[2]] # clusters[q[1]].jobs[q[2]]

\* a finished run that returned two clusters
C1_Witness == pc = "done" /\ Len(clusters) >= 2

\* C2: no remaining center keeps a cached cluster whose cluster-info list
\* contains a job of used_jobs.
C2_NoStaleCachedCluster ==
    \A i \in DOMAIN cluster_estimates :
        IsSome(cluster_estimates[i].cluster)
            => Range(ClusterJobs(Unwrap(cluster_estimates[i].cluster))) \cap used_jobs = {}

\* right after a commit: one remaining center had its cluster reset, another kept it
C2_Witness ==
    /\ pc = "build" /\ taskDone = {} /\ Len(clusters) >= 1
    /\ invalidated # {}
    /\ \E i \in DOMAIN cluster_estimates : IsSome(cluster_estimates[i].cluster)

\* C3: when get_clusters commits, no center holding a cached cluster ranks
\* strictly better by ordering_global than the committed one.
C3_CommittedIsMaximal ==
    (pc = "select" /\ IsSome(NewCluster))
        => \A i \in DOMAIN cluster_estimates :
               IsSome(cluster_estimates[i].cluster)
                   => ordering_global(cluster_estimates[i], cluster_estimates[1]) # "Greater"

\* a commit is about to happen and the winner strictly outranks another cached cluster
C3_Witness ==
    /\ pc = "select" /\ IsSome(NewCluster)
    /\ \E i \in DOMAIN cluster_estimates :
           /\ IsSome(cluster_estimates[i].cluster)
           /\ ordering_global(cluster_estimates[1], cluster_estimates[i]) = "Greater"

CandidatesOf(ce, center) ==
    UNION {ce[i].candidates : i \in {k \in DOMAIN ce : ce[k].center = center}}

\* C8: after every commit the winning center and every composed center are no
\* longer centers, no remaining candidate set contains a used job or is empty;
\* used_jobs only grows and candidate sets only shrink.
C8_CommitPrunes ==
    [][/\ used_jobs \subseteq used_jobs'
       /\ pc # "init" =>
             \A i \in DOMAIN cluster_estimates' :
                 /\ \E k \in DOMAIN cluster_estimates :
                        cluster_estimates[k].center = cluster_estimates'[i].center
                 /\ cluster_estimates'[i].candidates
                        \subseteq CandidatesOf(cluster_estimates, cluster_estimates'[i].center)
       /\ Len(clusters') > Len(clusters) =>
             /\ cluster_estimates[1].center \in used_jobs'
             /\ Range(clusters'[Len(clusters')].jobs) \subseteq used_jobs'
             /\ \A i \in DOMAIN cluster_estimates' :
                    /\ cluster_estimates'[i].center \notin used_jobs'
                    /\ cluster_estimates'[i].candidates \cap used_jobs' = {}
                    /\ cluster_estimates'[i].candidates # {}]_vars

\* after a commit a remaining center has lost a candidate
C8_Witness ==
    /\ pc = "build" /\ Len(clusters) >= 1
    /\ \E i \in DOMAIN cluster_estimates :
           /\ cluster_estimates[i].candidates # {}
           /\ cluster_estimates[i].candidates
                  # InitialCandidates(estimates[cluster_estimates[i].center])

\* get_clusters with the build phase run serially over the centers, under a
\* given hash iteration order: [panic, clusters]
RECURSIVE SerialLoop(_, _, _, _)
SerialLoop(order, ce, used, out) ==
    LET results == [i \in DOMAIN ce |->
                       IF IsNone(ce[i].cluster)
                       THEN build_job_cluster(order, ce[i].center, used)
                       ELSE [panic |-> FALSE, cluster |-> ce[i].cluster]]
        built == [i \in DOMAIN ce |-> [ce[i] EXCEPT !.cluster = results[i].cluster]]
        sorted == SortCentersBy(built)
        first == IF Len(sorted) > 0 THEN sorted[1].cluster ELSE None
    IN IF \E i \in DOMAIN ce : results[i].panic THEN [panic |-> TRUE, clusters |-> out]
       ELSE IF IsNone(first) THEN [panic |-> FALSE, clusters |-> out]
       ELSE LET new_jobs == ClusterJobs(Unwrap(first))
                now_used == used \cup Range(new_jobs)
            IN SerialLoop(order, PruneEstimates(sorted, now_used), now_used,
                          Append(out, [cluster |-> Unwrap(first), jobs |-> new_jobs]))

GetClustersSerial(order) == SerialLoop(order, InitialEstimates(order), {}, <<>>)

CanonicalOrder == [i \in JobIds |-> i]

\* C4: get_clusters terminates only when no remaining center holds a cluster.
C4_TerminatesOnlyWithoutClusters ==
    pc = "done" => \A i \in DOMAIN cluster_estimates : IsNone(cluster_estimates[i].cluster)

\* C5: every cluster job returned by get_clusters passes check_insertion.
C5_ReturnedClustersPassCheck ==
    \A i \in DOMAIN clusters : check_insertion(clusters[i].cluster)

\* C6: whatever the interleaving of the per-center build tasks, the output of
\* get_clusters is the output of the run that builds the centers serially.
C6_ParallelEqualsSerial ==
    pc = "done" => clusters = GetClustersSerial(iterOrder).clusters

\* a finished run whose first cluster has three composed jobs
C6_Witness == pc = "done" /\ Len(clusters) >= 1 /\ Len(clusters[1].jobs) >= 3

\* C7: the output of get_clusters does not depend on the order in which the
\* hash maps are iterated: it is the output obtained under the canonical order.
C7_OutputIndependentOfHashOrder ==
    pc = "done" => clusters = GetClustersSerial(CanonicalOrder).clusters

\* C9: get_clusters never aborts: no return-movement lookup fails.
C9_NeverPanics == pc # "panic"

\* the set of one kind of a job's skills; missing when the job has no JobSkills
SkillSetOf(job_skills, kind) ==
    IF IsNone(job_skills) THEN None
    ELSE CASE kind = "all_of" -> Unwrap(job_skills).all_of
           [] kind = "one_of" -> Unwrap(job_skills).one_of
           [] kind = "none_of" -> Unwrap(job_skills).none_of

\* a set missing on the candidate is accepted, a set present on the candidate
\* needs a superset on the source
SubsetLaw(source_set, candidate_set) ==
    \/ IsNone(candidate_set)
    \/ IsSome(source_set) /\ Unwrap(candidate_set) \subseteq Unwrap(source_set)

\* C10: the skills merge accepts (source, candidate) if and only if each of the
\* candidate's all_of, one_of and none_of is missing or a subset of the
\* source's set of the same kind; a rejection returns the violation code.
C10_MergeIffSubsets ==
    IsSome(merge_result) =>
        /\ Unwrap(merge_result).ok <=>
               \A kind \in {"all_of", "one_of", "none_of"} :
                   SubsetLaw(SkillSetOf(source_skills, kind), SkillSetOf(candidate_skills, kind))
        /\ ~Unwrap(merge_result).ok => Unwrap(merge_result).code = SkillViolationCode

\* C11: a successful skills merge returns the source (its skills unchanged,
\* never the candidate's); the merge is not commutative.
C11_MergeReturnsSource ==
    (IsSome(merge_result) /\ Unwrap(merge_result).ok)
        => Unwrap(merge_result).skills = source_skills

\* merge(source, candidate) succeeded although the two differ, and
\* merge(candidate, source) is rejected
C11_Witness ==
    /\ IsSome(merge_result) /\ Unwrap(merge_result).ok
    /\ source_skills # candidate_skills
    /\ ~SkillsMerge(candidate_skills, source_skills).ok

\* the law of one kind of set against the vehicle's skills: a missing set asks
\* for nothing; with a vehicle without skills only a non-empty all_of or
\* one_of fails
VehicleLaw(kind, job_set, vehicle_skills) ==
    \/ IsNone(job_set)
    \/ /\ IsSome(vehicle_skills)
       /\ CASE kind = "all_of" -> Unwrap(job_set) \subseteq Unwrap(vehicle_skills)
            [] kind = "one_of" -> Unwrap(job_set) \cap Unwrap(vehicle_skills) # {}
            [] kind = "none_of" -> Unwrap(job_set) \cap Unwrap(vehicle_skills) = {}
    \/ /\ IsNone(vehicle_skills)
       /\ kind \in {"all_of", "one_of"} => Unwrap(job_set) = {}

\* C12: a route-level move gets no violation if and only if all_of is a subset
\* of the vehicle's skills, one_of meets them and none_of is disjoint from
\* them; a vehicle without skills fails a non-empty all_of or one_of only; a
\* job without skills and an activity-level move never violate.
C12_EvaluateIffVehicleLaw ==
    IsSome(evaluate_result) =>
        LET ctx == Unwrap(move_ctx)
        IN IsNone(Unwrap(evaluate_result)) <=>
               \/ ctx.kind = "Activity"
               \/ IsNone(ctx.job_skills)
               \/ \A kind \in {"all_of", "one_of", "none_of"} :
                      VehicleLaw(kind, SkillSetOf(ctx.job_skills, kind), ctx.vehicle_skills)

\* a route-level move of a job whose one_of misses the vehicle's skills was rejected
C12_Witness ==
    /\ IsSome(evaluate_result) /\ IsSome(Unwrap(evaluate_result))
    /\ Unwrap(move_ctx).kind = "Route"
    /\ IsSome(Unwrap(move_ctx).vehicle_skills)
    /\ IsSome(Unwrap(move_ctx).job_skills)
    /\ IsSome(Unwrap(Unwrap(move_ctx).job_skills).one_of)
    /\ Unwrap(Unwrap(Unwrap(move_ctx).job_skills).one_of)
           \cap Unwrap(Unwrap(move_ctx).vehicle_skills) = {}

\* C13: evaluating the insertion of a job with group g into a route gives a
\* violation with the group code and stopped = true if and only if another
\* route's group state contains g; otherwise (also for a job without group)
\* there is no violation.
C13_EvaluateIffOtherRouteHolds ==
    (IsSome(group_op) /\ Unwrap(group_op).op = "evaluate") =>
        LET o == Unwrap(group_op)
            held == /\ IsSome(o.job)
                    /\ \E r \in RouteIds : r # o.route_idx /\ Unwrap(o.job) \in routes[r].groups
        IN /\ held => o.result = Some([code |-> GroupViolationCode, stopped |-> TRUE])
           /\ ~held => o.result = None

\* routes [[], [g1]], a job of g1 evaluated for the first route: rejected
C13_Witness ==
    /\ IsSome(group_op) /\ Unwrap(group_op).op = "evaluate"
    /\ Unwrap(group_op).route_idx = 1 /\ Unwrap(group_op).job = Some("g1")
    /\ routes[1].jobs = <<>> /\ routes[2].jobs = <<Some("g1")>>
    /\ IsSome(Unwrap(group_op).result)

\* C14: the group merge succeeds if and only if source and candidate have
\* equal groups (both absent or the same string); every other pair is
\* rejected with the group violation code.
C14_MergeIffEqualGroups ==
    (IsSome(group_op) /\ Unwrap(group_op).op = "merge") =>
        LET o == Unwrap(group_op)
            equal == \/ IsNone(o.job) /\ IsNone(o.candidate)
                     \/ /\ IsSome(o.job) /\ IsSome(o.candidate)
                        /\ Unwrap(o.job) = Unwrap(o.candidate)
        IN /\ Unwrap(o.result).ok <=> equal
           /\ ~equal => Unwrap(o.result).code = GroupViolationCode

\* a source with a group and a candidate without one: rejected
C14_Witness ==
    /\ IsSome(group_op) /\ Unwrap(group_op).op = "merge"
    /\ IsSome(Unwrap(group_op).job) /\ IsNone(Unwrap(group_op).candidate)
    /\ ~Unwrap(Unwrap(group_op).result).ok

\* C15: once the state of the initial solution is computed, no group string is
\* in the group state of two different routes, whatever insertions the
\* constraint admitted.
C15_GroupInOneRoute ==
    pc # "fresh" =>
        \A a \in RouteIds : \A b \in RouteIds :
            a # b => routes[a].groups \cap routes[b].groups = {}

\* after an accepted insertion both groups are in use, in different routes
C15_Witness ==
    /\ IsSome(group_op) /\ Unwrap(group_op).op = "accept_insertion"
    /\ IsSome(Unwrap(group_op).job)
    /\ \E a \in RouteIds : \E b \in RouteIds :
           a # b /\ routes[a].groups # {} /\ routes[b].groups # {}

\* C16: accept_solution_state sets every route's group set to the groups of
\* the route's jobs; accept_insertion adds the job's group to the given route
\* and leaves the group sets of the other routes as they were.
C16_StateUpdatesExact ==
    IsSome(group_op) =>
        LET o == Unwrap(group_op)
        IN /\ o.op = "accept_solution_state" =>
                 \A r \in RouteIds :
                     /\ routes[r].jobs = o.before[r].jobs
                     /\ \A g \in GroupNames :
                            g \in routes[r].groups <=>
                                \E i \in DOMAIN routes[r].jobs : routes[r].jobs[i] = Some(g)
           /\ o.op = "accept_insertion" =>
                 \A r \in RouteIds :
                     /\ routes[r].jobs = o.before[r].jobs
                     /\ r # o.route_idx => routes[r].groups = o.before[r].groups
                     /\ r = o.route_idx =>
                            \A g \in GroupNames :
                                g \in routes[r].groups <=>
                                    (g \in o.before[r].groups \/ o.job = Some(g))

\* accept_solution_state changed the group state of a route
C16_Witness ==
    /\ IsSome(group_op) /\ Unwrap(group_op).op = "accept_solution_state"
    /\ \E r \in RouteIds : routes[r].groups # Unwrap(group_op).before[r].groups

\* every emitted DissimilarityInfo, as <<outer, inner, index>>
EmittedEntries ==
    {e \in JobIds \X JobIds \X (1..(MaxPlaces * MaxPlaces)) :
        /\ e[1] \in DOMAIN estimates
        /\ e[2] \in DOMAIN estimates[e[1]]
        /\ e[3] \in DOMAIN estimates[e[1]][e[2]]}

\* C17: an emitted entry is flagged reachable if and only if the four oracle
\* values are non-negative, both durations are strictly below
\* threshold.moving_duration and both distances strictly below
\* threshold.moving_distance.
C17_ReachableIffWithinThresholds ==
    \A e \in EmittedEntries :
        LET d == estimates[e[1]][e[2]][e[3]]
        IN d.reachable <=>
               /\ d.info.forward[1] >= 0 /\ d.info.forward[2] >= 0
               /\ d.info.backward[1] >= 0 /\ d.info.backward[2] >= 0
               /\ d.info.forward[2] < config.threshold.moving_duration
               /\ d.info.backward[2] < config.threshold.moving_duration
               /\ d.info.forward[1] < config.threshold.moving_distance
               /\ d.info.backward[1] < config.threshold.moving_distance

\* the recorded growths, as <<center, index of the growth>>
Growths ==
    {x \in JobIds \X (1..MaxPlaces) :
        x[1] \in DOMAIN build_log /\ x[2] \in DOMAIN build_log[x[1]].growths}

GrowthOf(x) == build_log[x[1]].growths[x[2]]

\* the ClusterInfos of a growth, the center's first
VisitsOf(g) == Unwrap(g.grown.dimens.cluster)

PlaceLocation(job, place_idx) == Unwrap(jobs[job].places[place_idx].location)

\* the cluster place duration after pass n of a growth
DurationAfter(g, n) ==
    IF n < Len(g.iterations) THEN g.iterations[n + 1].duration
    ELSE g.grown.places[1].duration

\* C18: with visiting = Return the tail never advances: every pass of a growth
\* and every try_add_job call is relative to the center job and the chosen
\* center place; the costs of every committed ClusterInfo are the movements
\* center -> job and job -> center; every committed addition adds forward
\* duration + backward duration + service time to the cluster place duration.
C18_ReturnKeepsTail ==
    config.visiting = "Return" =>
        \A x \in Growths :
            LET g == GrowthOf(x)
                center_location == PlaceLocation(x[1], g.center_place_idx)
            IN /\ \A n \in DOMAIN g.iterations :
                      /\ g.iterations[n].last_job = x[1]
                      /\ g.iterations[n].last_place_idx = g.center_place_idx
                      /\ \A c \in DOMAIN g.iterations[n].calls :
                             g.iterations[n].calls[c].center_place_idx = g.center_place_idx
                      /\ n + 1 \in DOMAIN VisitsOf(g) =>
                             DurationAfter(g, n) - g.iterations[n].duration
                                 = VisitsOf(g)[n + 1].forward[2] + VisitsOf(g)[n + 1].backward[2]
                                       + VisitsOf(g)[n + 1].service_time
               /\ \A k \in DOMAIN VisitsOf(g) :
                      k >= 2 =>
                          LET v == VisitsOf(g)[k]
                              location == PlaceLocation(v.job, v.place_idx)
                          IN /\ v.forward = <<TransportDistance(center_location, location),
                                              TransportDuration(center_location, location)>>
                             /\ v.backward = <<TransportDistance(location, center_location),
                                               TransportDuration(location, center_location)>>

\* a growth under Return that committed a job two locations away from the
\* center after a job next to it
C18_Witness ==
    /\ config.visiting = "Return"
    /\ \E x \in Growths :
           /\ Len(VisitsOf(GrowthOf(x))) >= 3
           /\ VisitsOf(GrowthOf(x))[2].forward[2] = 1
           /\ VisitsOf(GrowthOf(x))[3].forward[2] = 2

RECURSIVE SumTo(_, _)
SumTo(f, n) == IF n = 0 THEN 0 ELSE f[n] + SumTo(f, n - 1)

\* the duration of the chain of a growth: the service time of every added job
\* and the forward duration of every hop, read from the transport oracle
ChainDuration(g) ==
    LET visits == VisitsOf(g)
        hop == [k \in DOMAIN visits |->
                   IF k = 1 THEN 0
                   ELSE visits[k].service_time
                            + TransportDuration(
                                  PlaceLocation(visits[k - 1].job, visits[k - 1].place_idx),
                                  PlaceLocation(visits[k].job, visits[k].place_idx))]
    IN SumTo(hop, Len(visits))

\* C19: with ClosedContinuation the place duration of a finished cluster of
\* n >= 2 jobs is the center's original duration plus the service times of the
\* added jobs plus the forward duration of every hop plus one backward
\* duration from the last visited job to the center; with Return and
\* OpenContinuation finish_cluster leaves the duration unchanged.
C19_FinishedDuration ==
    \A x \in Growths :
        LET g == GrowthOf(x)
            visits == VisitsOf(g)
            last == visits[Len(visits)]
        IN (g.count >= 2 /\ ~g.panic) =>
               IF config.visiting = "ClosedContinuation"
               THEN g.finished.places[1].duration
                        = jobs[x[1]].places[g.center_place_idx].duration
                              + ChainDuration(g)
                              + TransportDuration(PlaceLocation(last.job, last.place_idx),
                                                  PlaceLocation(x[1], g.center_place_idx))
               ELSE g.finished.places[1].duration = g.grown.places[1].duration

\* a finished chain of three jobs under ClosedContinuation
C19_Witness ==
    /\ config.visiting = "ClosedContinuation"
    /\ \E x \in Growths :
           /\ GrowthOf(x).count >= 3 /\ ~GrowthOf(x).panic
           /\ GrowthOf(x).finished.places[1].duration > GrowthOf(x).grown.places[1].duration

\* every recorded try_add_job call, as <<center, growth, pass, call>>
Calls ==
    {y \in JobIds \X (1..MaxPlaces) \X (1..NJobs) \X (1..NJobs) :
        /\ <<y[1], y[2]>> \in Growths
        /\ y[3] \in DOMAIN build_log[y[1]].growths[y[2]].iterations
        /\ y[4] \in DOMAIN build_log[y[1]].growths[y[2]].iterations[y[3]].calls}

CallOf(y) == build_log[y[1]].growths[y[2]].iterations[y[3]].calls[y[4]]

StepPassed(step) == step.merge = Some(TRUE) /\ step.check = Some(TRUE)

\* C20: a ClusterInfo is committed only if the merge succeeded and then
\* check_insertion accepted the merged job; check_insertion is not called for
\* an info whose merge failed; a failure of either step makes the search go on
\* with the next info.
C20_CommitAfterMergeAndCheck ==
    \A y \in Calls :
        LET c == CallOf(y)
        IN ~c.panic =>
               /\ \A t \in DOMAIN c.trace :
                      /\ IsSome(c.trace[t].check) => c.trace[t].merge = Some(TRUE)
                      /\ t < Len(c.trace) => ~StepPassed(c.trace[t])
               /\ c.committed => Len(c.trace) >= 1 /\ StepPassed(c.trace[Len(c.trace)])
               /\ ~c.committed =>
                      /\ Len(c.trace) = c.infos_count
                      /\ \A t \in DOMAIN c.trace : ~StepPassed(c.trace[t])

\* a call whose first info was merged and then refused by check_insertion and
\* whose second info was tried, a call whose first info failed the merge and
\* whose second info was tried, or a committed call
C20_Witness ==
    /\ \E y \in Calls :
           /\ Len(CallOf(y).trace) >= 2
           /\ \/ CallOf(y).trace[1].merge = Some(TRUE) /\ CallOf(y).trace[1].check = Some(FALSE)
              \/ CallOf(y).trace[1].merge = Some(FALSE)
    /\ \E y \in Calls : CallOf(y).committed

\* the cluster time windows after pass n of a growth
TimesAfter(g, n) ==
    IF n < Len(g.iterations) THEN g.iterations[n + 1].times
    ELSE filter_times(g.grown.places[1].times)

\* window w lies within the overlap of the cluster window with the place
\* window whose start is moved earlier by the forward duration
WithinShiftedOverlap(w, cluster_time, place_time, forward_duration) ==
    LET overlap == TwOverlapping(TimeWindowNew(place_time.start - forward_duration,
                                               place_time.end),
                                 cluster_time)
    IN /\ IsSome(overlap)
       /\ Unwrap(overlap).start <= w.start
       /\ w.end <= Unwrap(overlap).end

\* C21: for any committed addition, every time window of the resulting
\* cluster is a subset of the intersection of some time window the cluster had
\* before with some time window of the candidate place whose start was shifted
\* earlier by the forward travel duration.
C21_WindowsShrink ==
    \A x \in Growths :
        LET g == GrowthOf(x)
        IN \A n \in DOMAIN g.iterations :
               n + 1 \in DOMAIN VisitsOf(g) =>
                   LET v == VisitsOf(g)[n + 1]
                       before == g.iterations[n].times
                       place_times == filter_times(jobs[v.job].places[v.place_idx].times)
                       after == TimesAfter(g, n)
                   IN \A w \in DOMAIN after :
                          \E c \in DOMAIN before, p \in DOMAIN place_times :
                              WithinShiftedOverlap(after[w], before[c], place_times[p],
                                                   v.forward[2])

\* C22: get_clusters called with an empty estimates map returns an empty list
\* and calls neither merge nor check_insertion nor an ordering function: no
\* center exists, so no cluster is built and the sort has nothing to compare.
C22_EmptyEstimates ==
    (pc \in {"build", "select", "done", "panic"} /\ DOMAIN estimates = {}) =>
        /\ clusters = <<>>
        /\ cluster_estimates = <<>>
        /\ build_log = <<>>
        /\ pc # "panic"

\* get_clusters has returned for an empty estimates map
C22_Witness ==
    /\ pc = "done"
    /\ DOMAIN estimates = {}
    /\ clusters = <<>>

\* C23: a step of the parallel build phase writes at most the cluster slot of
\* the task's own center, and only when that slot was None; estimates,
\* used_jobs, every candidate set, the order of the centers and every cached
\* cluster are left unchanged.
C23_TaskWritesOwnSlot ==
    [][(pc = "build" /\ pc' \in {"build", "panic"}) =>
          /\ estimates' = estimates
          /\ used_jobs' = used_jobs
          /\ clusters' = clusters
          /\ DOMAIN cluster_estimates' = DOMAIN cluster_estimates
          /\ \A i \in DOMAIN cluster_estimates :
                 /\ cluster_estimates'[i].center = cluster_estimates[i].center
                 /\ cluster_estimates'[i].candidates = cluster_estimates[i].candidates
                 /\ cluster_estimates'[i].cluster # cluster_estimates[i].cluster =>
                        /\ IsNone(cluster_estimates[i].cluster)
                        /\ taskDone' \ taskDone = {i}
                        /\ Unwrap(cluster_estimates'[i].cluster).dimens.id
                               = cluster_estimates[i].center]_vars

\* in a later iteration a task has stored the rebuilt cluster of an
\* invalidated center while the cached cluster of another center is in the list
C23_Witness ==
    /\ pc = "build" /\ Len(clusters) >= 1
    /\ \E i \in taskDone :
           /\ IsSome(cluster_estimates[i].cluster)
           /\ cluster_estimates[i].center \in invalidated
    /\ \E k \in DOMAIN cluster_estimates \ taskDone :
           /\ IsSome(cluster_estimates[k].cluster)
           /\ cluster_estimates[k].center \notin invalidated

\* the growth that is best after the first k places of a build: the highest
\* count above one, the earliest place winning a tie (0: none)
BestAfter(growths, k) ==
    LET wins(i, m) == (growths[m].count <= growths[i].count)
                          /\ (m < i => growths[m].count < growths[i].count)
        best == {i \in 1..k : growths[i].count > 1 /\ \A m \in 1..k : wins(i, m)}
    IN IF best = {} THEN 0 ELSE CHOOSE i \in best : TRUE

\* C24: build_job_cluster returns, among the clusters grown from the center's
\* places in turn, the one with the highest visit count (the earliest place
\* wins a tie), and the returned cluster satisfies building.threshold.
C24_ReturnedPassesThreshold ==
    \A c \in DOMAIN build_log :
        (~build_log[c].panic /\ IsSome(build_log[c].cluster)) =>
            LET growths == build_log[c].growths
                best == BestAfter(growths, Len(growths))
            IN /\ best # 0
               /\ Unwrap(build_log[c].cluster) = growths[best].finished
               /\ building_threshold(Unwrap(build_log[c].cluster))

\* C25: when building.threshold rejects the best-so-far cluster after the
\* growth from some center place, build_job_cluster grows no later place of
\* the center and returns that best-so-far cluster.
C25_RejectionStopsBuild ==
    \A c \in DOMAIN build_log :
        ~build_log[c].panic =>
            LET growths == build_log[c].growths
            IN \A k \in DOMAIN growths :
                   (/\ BestAfter(growths, k) # 0
                    /\ ~building_threshold(growths[BestAfter(growths, k)].finished)) =>
                       /\ Len(growths) = k
                       /\ build_log[c].cluster = Some(growths[BestAfter(growths, k)].finished)

\* the cluster grown from the first of the two places of a center was
\* rejected and the second place was not grown
C25_Witness ==
    \E c \in DOMAIN build_log :
        /\ ~build_log[c].panic
        /\ Len(PlaceInfos(jobs[c])) = 2
        /\ Len(build_log[c].growths) = 1
        /\ IsSome(build_log[c].cluster)
        /\ ~building_threshold(Unwrap(build_log[c].cluster))

\* the position of a center in the list get_clusters starts from (line 29)
SuppliedPosition(center) ==
    LET keys == IterKeys(iterOrder, DOMAIN estimates)
    IN CHOOSE i \in DOMAIN keys : keys[i] = center

\* C26: at every iteration of get_clusters, among the centers that
\* ordering_global reports as equal, the one supplied earlier is placed first
\* by the sort (and so selected first), also in the later iterations.
C26_TiesKeepSuppliedOrder ==
    pc = "select" =>
        \A i, k \in DOMAIN cluster_estimates :
            (i < k /\ ordering_global(cluster_estimates[i], cluster_estimates[k]) = "Equal")
                => SuppliedPosition(cluster_estimates[i].center)
                       < SuppliedPosition(cluster_estimates[k].center)

\* C27: a skill set that is present but empty is vacuously satisfied: a
\* route-level move is rejected only on account of a present set that is not
\* empty and fails against the vehicle's skills, whether the vehicle has
\* skills or not.
C27_EmptySetsVacuous ==
    (IsSome(evaluate_result) /\ IsSome(Unwrap(evaluate_result))) =>
        LET ctx == Unwrap(move_ctx)
        IN \E kind \in {"all_of", "one_of", "none_of"} :
               /\ IsSome(SkillSetOf(ctx.job_skills, kind))
               /\ Unwrap(SkillSetOf(ctx.job_skills, kind)) # {}
               /\ ~VehicleLaw(kind, SkillSetOf(ctx.job_skills, kind), ctx.vehicle_skills)

\* C28: the reachability thresholds are strict: an emitted entry one of whose
\* distances equals threshold.moving_distance, or one of whose durations
\* equals threshold.moving_duration, is flagged unreachable, whatever the
\* other values are.
C28_ThresholdsStrict ==
    \A e \in EmittedEntries :
        LET d == estimates[e[1]][e[2]][e[3]]
        IN (\/ d.info.forward[1] = config.threshold.moving_distance
            \/ d.info.backward[1] = config.threshold.moving_distance
            \/ d.info.forward[2] = config.threshold.moving_duration
            \/ d.info.backward[2] = config.threshold.moving_duration)
               => ~d.reachable

\* an entry flagged unreachable whose backward duration equals the threshold
\* while the three other values are below their thresholds
C28_Witness ==
    \E e \in EmittedEntries :
        LET d == estimates[e[1]][e[2]][e[3]]
        IN /\ ~d.reachable
           /\ d.info.backward[2] = config.threshold.moving_duration
           /\ d.info.forward[2] >= 0
           /\ d.info.forward[2] < config.threshold.moving_duration
           /\ d.info.forward[1] >= 0 /\ d.info.backward[1] >= 0
           /\ d.info.forward[1] < config.threshold.moving_distance
           /\ d.info.backward[1] < config.threshold.moving_distance

\* the time windows among the time spans of a place of a job
WindowsOf(job, place_idx) ==
    {span \in Range(jobs[job].places[place_idx].times) : span.kind = "Window"}

\* the shared time of two places: the largest overlap of a window of the one
\* with a window of the other, 0 when no two windows overlap
SharedTimeOf(outer, outer_place_idx, inner, inner_place_idx) ==
    SetMax({0} \cup {MinOf(a.end, b.end) - MaxOf(a.start, b.start) :
                         a \in WindowsOf(outer, outer_place_idx),
                         b \in WindowsOf(inner, inner_place_idx)})

\* the pairs of located places of two distinct input jobs, as
\* <<outer, outer place, inner, inner place>>
PlacePairs ==
    {q \in JobIds \X (1..MaxPlaces) \X JobIds \X (1..MaxPlaces) :
        /\ q[1] \in dissim_log.job_ids /\ q[3] \in dissim_log.job_ids /\ q[1] # q[3]
        /\ q[2] \in DOMAIN jobs[q[1]].places /\ IsSome(jobs[q[1]].places[q[2]].location)
        /\ q[4] \in DOMAIN jobs[q[3]].places /\ IsSome(jobs[q[3]].places[q[4]].location)}

\* the indices of the entries emitted for a place pair
EntriesOf(q) ==
    IF q[1] \in DOMAIN estimates /\ q[3] \in DOMAIN estimates[q[1]]
    THEN {i \in DOMAIN estimates[q[1]][q[3]] :
             /\ estimates[q[1]][q[3]][i].outer_place_idx = q[2]
             /\ estimates[q[1]][q[3]][i].info.place_idx = q[4]
             /\ estimates[q[1]][q[3]][i].info.job = q[3]}
    ELSE {}

\* C29: for a pair of places an entry is emitted if and only if their shared
\* time is strictly greater than threshold.min_shared_time (0 when unset);
\* otherwise the pair is skipped and the transport oracle is not asked about it.
C29_EmittedIffSharedTime ==
    pc = "init" =>
        /\ \A q \in PlacePairs :
               LET passes == SharedTimeOf(q[1], q[2], q[3], q[4]) > MinSharedTime
               IN /\ EntriesOf(q) # {} <=> passes
                  /\ q \in dissim_log.pairs <=> passes
        /\ dissim_log.pairs \subseteq PlacePairs

\* a pair whose shared time equals a positive threshold was skipped and
\* another pair was emitted
C29_Witness ==
    /\ pc = "init"
    /\ MinSharedTime > 0
    /\ \E q \in PlacePairs :
           /\ SharedTimeOf(q[1], q[2], q[3], q[4]) = MinSharedTime
           /\ EntriesOf(q) = {}
           /\ q \notin dissim_log.pairs
    /\ \E q \in PlacePairs : EntriesOf(q) # {}

\* C30: get_jobs_dissimilarities covers every ordered pair of distinct input
\* jobs and every pair of their places: a place pair passing the shared-time
\* test yields exactly one entry, carrying the indices of the two places in
\* the jobs' own place lists, and every entry belongs to such a pair; no job is
\* paired with itself, every input job is a key of the result and no inner job
\* is mapped to an empty list.
C30_CoversPlacePairs ==
    pc = "init" =>
        /\ DOMAIN estimates = dissim_log.job_ids
        /\ \A outer \in DOMAIN estimates :
               /\ outer \notin DOMAIN estimates[outer]
               /\ DOMAIN estimates[outer] \subseteq dissim_log.job_ids
               /\ \A inner \in DOMAIN estimates[outer] :
                      /\ Len(estimates[outer][inner]) > 0
                      /\ \A i \in DOMAIN estimates[outer][inner] :
                             \E q \in PlacePairs :
                                 q[1] = outer /\ q[3] = inner /\ i \in EntriesOf(q)
        /\ \A q \in PlacePairs :
               IF SharedTimeOf(q[1], q[2], q[3], q[4]) > MinSharedTime
               THEN Cardinality(EntriesOf(q)) = 1
               ELSE EntriesOf(q) = {}

\* the entry of a job whose located place is the second of its place list
\* carries the index of that place, on the outer and on the inner side, and an
\* input job without any entry is a key of the result
C30_Witness ==
    /\ pc = "init"
    /\ \E q \in PlacePairs : q[2] = 2 /\ IsNone(jobs[q[1]].places[1].location)
                                /\ EntriesOf(q) # {}
    /\ \E q \in PlacePairs : q[4] = 2 /\ IsNone(jobs[q[3]].places[1].location)
                                /\ EntriesOf(q) # {}
    /\ \E outer \in DOMAIN estimates : DOMAIN estimates[outer] = {}

\* the dissimilarities recorded from a job's place to a candidate
TailEntries(job, place_idx, cand) ==
    IF job \in DOMAIN estimates /\ cand \in DOMAIN estimates[job]
    THEN SelectSeq(estimates[job][cand], LAMBDA d : d.outer_place_idx = place_idx)
    ELSE <<>>

\* the smallest forward duration among these dissimilarities
BestForward(job, place_idx, cand) ==
    LET entries == TailEntries(job, place_idx, cand)
    IN CHOOSE m \in {entries[i].info.forward[2] : i \in DOMAIN entries} :
           \A i \in DOMAIN entries : m <= entries[i].info.forward[2]

\* C31: with ClosedContinuation or OpenContinuation the tail of the chain is
\* the job added last and its chosen place: every pass of a growth starts from
\* the last visit recorded so far, tries only jobs not yet in the chain, each
\* with the dissimilarities recorded from the tail's place and in the order of
\* their best forward duration from the tail; the movement of a committed
\* visit is the movement tail -> job, and the addition adds forward duration
\* + service time to the cluster place duration.
C31_ContinuationAdvancesTail ==
    config.visiting \in {"ClosedContinuation", "OpenContinuation"} =>
        \A x \in Growths :
            LET g == GrowthOf(x)
                visits == VisitsOf(g)
            IN \A n \in DOMAIN g.iterations :
                   LET it == g.iterations[n]
                       tail == visits[n]
                   IN /\ it.visits = n
                      /\ it.last_job = tail.job
                      /\ it.last_place_idx = tail.place_idx
                      /\ \A c \in DOMAIN it.calls :
                             /\ it.calls[c].center_place_idx = tail.place_idx
                             /\ \A k \in 1..n : visits[k].job # it.calls[c].candidate
                             /\ it.calls[c].infos_count
                                    = Len(TailEntries(tail.job, tail.place_idx,
                                                      it.calls[c].candidate))
                             /\ it.calls[c].infos_count >= 1
                             /\ (c > 1 /\ config.building.ordering_local = "forward_duration") =>
                                    BestForward(tail.job, tail.place_idx,
                                                it.calls[c - 1].candidate)
                                        <= BestForward(tail.job, tail.place_idx,
                                                       it.calls[c].candidate)
                      /\ (n + 1 \in DOMAIN visits) =>
                             LET v == visits[n + 1]
                                 from == PlaceLocation(tail.job, tail.place_idx)
                                 to == PlaceLocation(v.job, v.place_idx)
                             IN /\ v.forward = <<TransportDistance(from, to),
                                                 TransportDuration(from, to)>>
                                /\ v.backward = <<TransportDistance(to, from),
                                                  TransportDuration(to, from)>>
                                /\ DurationAfter(g, n) - it.duration
                                       = v.forward[2] + v.service_time

\* a chain of three jobs under a continuation policy whose third job lies two
\* locations away from the center and one location away from the second job
C31_Witness ==
    /\ config.visiting \in {"ClosedContinuation", "OpenContinuation"}
    /\ \E x \in Growths :
           LET visits == VisitsOf(GrowthOf(x))
           IN /\ Len(visits) >= 3
              /\ visits[3].forward[1] = 1
              /\ TransportDistance(PlaceLocation(x[1], GrowthOf(x).center_place_idx),
                                   PlaceLocation(visits[3].job, visits[3].place_idx)) = 2

\* C32: every visit of a returned cluster other than the center's is reachable
\* from the center: estimates holds a dissimilarity from the center's chosen
\* place to the place the job is visited at, and it is flagged reachable.
C32_VisitsReachableFromCenter ==
    \A c \in DOMAIN clusters :
        LET visits == Unwrap(clusters[c].cluster.dimens.cluster)
            center == visits[1]
        IN \A k \in DOMAIN visits :
               k >= 2 =>
                   \E i \in DOMAIN TailEntries(center.job, center.place_idx, visits[k].job) :
                       LET d == TailEntries(center.job, center.place_idx, visits[k].job)[i]
                       IN d.info.place_idx = visits[k].place_idx /\ d.reachable

\* C33: no committed addition leaves the cluster with an empty time window
\* (end <= start), whether building.smallest_time_window is set or not, and
\* every window it leaves is at least smallest_time_window wide.
C33_NoEmptyWindows ==
    \A x \in Growths :
        LET g == GrowthOf(x)
        IN \A n \in DOMAIN g.iterations :
               n + 1 \in DOMAIN VisitsOf(g) =>
                   \A w \in DOMAIN TimesAfter(g, n) :
                       /\ TimesAfter(g, n)[w].end > TimesAfter(g, n)[w].start
                       /\ TimesAfter(g, n)[w].end - TimesAfter(g, n)[w].start
                              >= TimeWindowThreshold

\* the trailing duration of a visit: the duration of the place the job is
\* visited at, and the way back to the center when visiting = Return
TrailingDuration(visit) ==
    jobs[visit.job].places[visit.place_idx].duration
        + (IF config.visiting = "Return" THEN visit.backward[2] ELSE 0)

\* C34: the trailing duration that try_add_job subtracts from a window that
\* the candidate place does not end before (cluster_last_duration) is the
\* duration of the place at the recorded place_idx of the last visit of the
\* cluster, plus that visit's backward duration when visiting = Return: such a
\* window of a committed addition ends at overlap end - trailing duration -
\* forward duration.
C34_LastDurationOfUsedPlace ==
    \A x \in Growths :
        LET g == GrowthOf(x)
        IN \A n \in DOMAIN g.iterations :
               n + 1 \in DOMAIN VisitsOf(g) =>
                   LET last == VisitsOf(g)[n]
                       v == VisitsOf(g)[n + 1]
                       before == g.iterations[n].times
                       place_times == filter_times(jobs[v.job].places[v.place_idx].times)
                       after == TimesAfter(g, n)
                   IN \A c \in DOMAIN before, p \in DOMAIN place_times :
                          LET place_time == TimeWindowNew(place_times[p].start - v.forward[2],
                                                          place_times[p].end)
                              overlap == TwOverlapping(place_time, before[c])
                          IN (IsSome(overlap) /\ place_time.end >= before[c].end) =>
                                 LET end == Unwrap(overlap).end - TrailingDuration(last)
                                                - v.forward[2]
                                 IN (end - Unwrap(overlap).start >= TimeWindowThreshold) =>
                                        \E w \in DOMAIN after :
                                            /\ after[w].start = Unwrap(overlap).start
                                            /\ after[w].end = end

\* the pass of a growth committed a job
PassCommitted(it) == Len(it.calls) >= 1 /\ it.calls[Len(it.calls)].committed

\* the jobs tried in a growth
TriedIn(g) ==
    {job \in JobIds : \E n \in DOMAIN g.iterations : \E c \in DOMAIN g.iterations[n].calls :
                          g.iterations[n].calls[c].candidate = job}

\* C35: within one growth the candidates of a pass are tried in the order of
\* their best ClusterInfo from the tail and the first success ends the pass and
\* commits; no job is tried twice in a growth, whether it failed or was
\* committed before and whether the tail has advanced or not; a pass that
\* commits nothing is the last one, and a growth whose last pass committed
\* (or that made no pass) has tried every candidate it started with.
C35_FailedCandidatesRemoved ==
    \A x \in Growths :
        LET g == GrowthOf(x)
            visits == VisitsOf(g)
        IN ~g.panic =>
             /\ TriedIn(g) \subseteq g.candidates
             /\ (Len(g.iterations) = 0) <=> (g.candidates = {})
             /\ (Len(g.iterations) = 0 \/ PassCommitted(g.iterations[Len(g.iterations)])) =>
                    TriedIn(g) = g.candidates
             /\ \A n \in DOMAIN g.iterations :
                   LET it == g.iterations[n]
                   IN /\ \A c \in DOMAIN it.calls :
                             /\ c < Len(it.calls) => ~it.calls[c].committed
                             /\ (c > 1 /\ config.building.ordering_local = "forward_duration") =>
                                    BestForward(it.last_job, it.last_place_idx,
                                                it.calls[c - 1].candidate)
                                        <= BestForward(it.last_job, it.last_place_idx,
                                                       it.calls[c].candidate)
                             /\ \A m \in DOMAIN g.iterations :
                                    \A d \in DOMAIN g.iterations[m].calls :
                                        (m < n \/ (m = n /\ d < c)) =>
                                            g.iterations[m].calls[d].candidate
                                                # it.calls[c].candidate
                             /\ it.calls[c].candidate # x[1]
                      /\ PassCommitted(it) =>
                             /\ n + 1 \in DOMAIN visits
                             /\ visits[n + 1].job = it.calls[Len(it.calls)].candidate
                      /\ ~PassCommitted(it) =>
                             /\ n = Len(g.iterations)
                             /\ Len(visits) = n

\* a growth under a continuation policy whose first pass saw a candidate fail
\* before another one was committed, and whose second pass tried a job from
\* the advanced tail
C35_Witness ==
    /\ config.visiting # "Return"
    /\ \E x \in Growths :
           LET g == GrowthOf(x)
           IN /\ ~g.panic
              /\ Len(g.iterations) >= 2
              /\ Len(g.iterations[1].calls) >= 2
              /\ PassCommitted(g.iterations[1])
              /\ Len(g.iterations[2].calls) >= 1
              /\ g.iterations[2].last_job # x[1]

\* C36: every returned pair (cluster job, composed jobs) has at least two
\* composed jobs, which are the jobs of the cluster's ClusterInfos in their
\* order; the first one is the center, with zero forward and backward
\* movement, and the cluster is the one built last for that center; every
\* other composed job has an entry flagged reachable in the center's estimates
\* and belongs to no cluster returned before; the cluster job has one place,
\* located where the center's chosen place is.
C36_ReturnedPairsWellFormed ==
    \A c \in DOMAIN clusters :
        LET cluster == clusters[c].cluster
            composed == clusters[c].jobs
            visits == Unwrap(cluster.dimens.cluster)
            center == visits[1]
        IN /\ Len(composed) >= 2
           /\ Len(composed) = Len(visits)
           /\ \A k \in DOMAIN visits : composed[k] = visits[k].job
           /\ center.forward = <<0, 0>>
           /\ center.backward = <<0, 0>>
           /\ center.job \in DOMAIN build_log
           /\ build_log[center.job].cluster = Some(cluster)
           /\ Len(cluster.places) = 1
           /\ center.place_idx \in DOMAIN jobs[center.job].places
           /\ IsSome(cluster.places[1].location)
           /\ cluster.places[1].location = jobs[center.job].places[center.place_idx].location
           /\ \A k \in DOMAIN visits :
                  k >= 2 =>
                      /\ visits[k].job # center.job
                      /\ center.job \in DOMAIN estimates
                      /\ visits[k].job \in DOMAIN estimates[center.job]
                      /\ \E i \in DOMAIN estimates[center.job][visits[k].job] :
                             estimates[center.job][visits[k].job][i].reachable
           /\ \A k \in DOMAIN visits :
                  \A b \in 1..(c - 1) :
                      \A n \in DOMAIN clusters[b].jobs : clusters[b].jobs[n] # visits[k].job

\* a finished run that returned two clusters, the second one grown from the
\* second place of its center
C36_Witness ==
    /\ pc = "done"
    /\ Len(clusters) = 2
    /\ Unwrap(clusters[2].cluster.dimens.cluster)[1].place_idx = 2

\* the centers still under analysis
RemainingCenters == {cluster_estimates[i].center : i \in DOMAIN cluster_estimates}

\* C37: get_clusters comes to an end (it returns, or a failed expect() aborts
\* it): every commit removes at least the winning center from the analysis,
\* so the centers under analysis and the returned clusters together never
\* outnumber the keys of estimates, no center is committed twice and no used
\* job remains a center; every growth makes at most as many passes as it had
\* candidates, each pass removing at least one of them.
C37_GetClustersTerminates ==
    /\ [](/\ Len(cluster_estimates) + Len(clusters) <= Cardinality(DOMAIN estimates)
          /\ RemainingCenters \cap used_jobs = {}
          /\ \A a \in DOMAIN clusters : \A b \in DOMAIN clusters :
                 a # b => clusters[a].jobs[1] # clusters[b].jobs[1]
          /\ \A x \in Growths :
                 Len(GrowthOf(x).iterations) <= Cardinality(GrowthOf(x).candidates))
    /\ <>(pc \in {"done", "panic"})

\* a returned run of two commits in which some growth made two passes
C37_Witness ==
    /\ pc = "done"
    /\ Len(clusters) >= 2
    /\ \E x \in Growths : Len(GrowthOf(x).iterations) >= 2

\* get_clusters without the cache: every remaining center is rebuilt in every
\* iteration of the loop: [panic, clusters]
RECURSIVE RebuildingLoop(_, _, _, _)
RebuildingLoop(order, ce, used, out) ==
    LET results == [i \in DOMAIN ce |-> build_job_cluster(order, ce[i].center, used)]
        built == [i \in DOMAIN ce |-> [ce[i] EXCEPT !.cluster = results[i].cluster]]
        sorted == SortCentersBy(built)
        first == IF Len(sorted) > 0 THEN sorted[1].cluster ELSE None
    IN IF \E i \in DOMAIN ce : results[i].panic THEN [panic |-> TRUE, clusters |-> out]
       ELSE IF IsNone(first) THEN [panic |-> FALSE, clusters |-> out]
       ELSE LET new_jobs == ClusterJobs(Unwrap(first))
                now_used == used \cup Range(new_jobs)
            IN RebuildingLoop(order, PruneEstimates(sorted, now_used), now_used,
                              Append(out, [cluster |-> Unwrap(first), jobs |-> new_jobs]))

GetClustersRebuilding(order) == RebuildingLoop(order, InitialEstimates(order), {}, <<>>)

\* C38: a cached cluster is the cluster that building its center against the
\* current used_jobs gives, also after commits that left it in the cache; and
\* the output of get_clusters is the output of the variant that rebuilds
\* every remaining center in every iteration.
C38_CacheCoherent ==
    /\ pc \in {"build", "select"} =>
           \A i \in DOMAIN cluster_estimates :
               IsSome(cluster_estimates[i].cluster) =>
                   build_job_cluster(iterOrder, cluster_estimates[i].center, used_jobs).cluster
                       = cluster_estimates[i].cluster
    /\ pc = "done" => clusters = GetClustersRebuilding(iterOrder).clusters

====
